---- MODULE Spec2Model ----
(***************************************************************************)
(* Model of the chrome-markdownify extension: the conversion core, the     *)
(* DOM extractor, the clipboard and notification utilities, the content    *)
(* script, the context menus of the background worker and the paths of a   *)
(* copy request and of a download from the popup.                          *)
(*                                                                         *)
(* A JavaScript string is a sequence of one-character strings.  The        *)
(* operators below are the functions of src/src/utils/converter.ts,        *)
(* src/unnamed/part_001 (the DOM extractor), src/src/utils/clipboard.ts    *)
(* and src/src/utils/notifications.ts, computed as the code computes them  *)
(* (regular expressions by their backtracking order), and the actions      *)
(* apply them to inputs drawn from bounded sets, recording the call in     *)
(* op/arg and its result in ret.  turndownOptions holds the                *)
(* turndownService.options of each converter instance, log the calls made  *)
(* so far, document the live document the extractor reads, and browser     *)
(* what lives outside the call: the notifications on screen and the timers *)
(* pending, the page and its selection, or the context menu items.         *)
(***************************************************************************)
EXTENDS Integers, Sequences, FiniteSets, TLC

VARIABLES op, arg, ret, pc, turndownOptions, log, document, browser

vars == <<op, arg, ret, pc, turndownOptions, log, document, browser>>

(***************************************************************************)
(* Bounds of the model.                                                    *)
(***************************************************************************)
MaxLen == 6
MaxContent == 4
MaxRows == 2
MaxCells == 2
MaxChildren == 2
MaxDoc == 3
MaxCalls == 3

(***************************************************************************)
(* Strings.                                                                *)
(***************************************************************************)
Chars(s) == [i \in 1..Len(s) |-> SubSeq(s, i, i)]

NL == "\n"
WhiteSpace == {" ", "\t", "\n", "\r"}
LineTerminators == {"\n", "\r"}

StringsUpTo(alphabet, n) == UNION {[1..k -> alphabet] : k \in 0..n}

Max(S) == CHOOSE x \in S : \A y \in S : y <= x
Min(S) == CHOOSE x \in S : \A y \in S : x <= y

RECURSIVE RunIn(_, _, _)
\* Length of the longest run of characters of C that starts at s[i].
RunIn(s, i, C) ==
  IF i > Len(s) \/ s[i] \notin C THEN 0 ELSE 1 + RunIn(s, i + 1, C)

RECURSIVE RunNotIn(_, _, _)
\* Length of the longest run of characters outside C that starts at s[i].
RunNotIn(s, i, C) ==
  IF i > Len(s) \/ s[i] \in C THEN 0 ELSE 1 + RunNotIn(s, i + 1, C)

\* The regular expression anchors ^ and $ under the m flag, at the position
\* just before s[i].
AtLineStart(s, i) == i = 1 \/ s[i - 1] \in LineTerminators
AtLineEnd(s, i) == i > Len(s) \/ s[i] \in LineTerminators

Drop(s, n) == SubSeq(s, n + 1, Len(s))
Take(s, n) == SubSeq(s, 1, n)

\* String.prototype.trim
trim(s) ==
  LET lead == RunIn(s, 1, WhiteSpace)
      rest == Drop(s, lead)
      keep == IF rest = <<>> THEN 0
              ELSE Max({n \in 1..Len(rest) : rest[n] \notin WhiteSpace})
  IN Take(rest, keep)

RECURSIVE join(_, _)
\* Array.prototype.join
join(parts, sep) ==
  IF parts = <<>> THEN <<>>
  ELSE IF Len(parts) = 1 THEN parts[1]
  ELSE parts[1] \o sep \o join(Tail(parts), sep)

(***************************************************************************)
(* cleanupMarkdown, converter.ts:175-188.                                  *)
(***************************************************************************)

\* One attempt of /^(#{1,6})\s+(.+?)\s*$/m at position i: the match the
\* backtracking engine finds first (#{1,6} and \s+ and \s* greedy, .+? lazy),
\* as [ok, len, g1, g2].
HeadingMatch(s, i) ==
  LET h == RunIn(s, i, {"#"})
      NoMatch == [ok |-> FALSE, len |-> 0, g1 |-> <<>>, g2 |-> <<>>]
      \* #{1,6} gives back hashes until \s+ can start: it needs s[i+k] to be
      \* white space, so only k = h can do, and only when h <= 6.
      ks == {k \in 1..(IF h < 6 THEN h ELSE 6) :
               i + k <= Len(s) /\ s[i + k] \in WhiteSpace}
  IN IF ~AtLineStart(s, i) \/ ks = {} THEN NoMatch
     ELSE
       LET k == Max(ks)
           EndOk(q) == \E t \in 0..RunIn(s, q, WhiteSpace) : AtLineEnd(s, q + t)
           BodyOk(p) == \E d \in 1..RunNotIn(s, p, LineTerminators) : EndOk(p + d)
           wsOk == {w \in 1..RunIn(s, i + k, WhiteSpace) : BodyOk(i + k + w)}
       IN IF wsOk = {} THEN NoMatch
          ELSE
            LET w == Max(wsOk)
                p == i + k + w
                d == Min({x \in 1..RunNotIn(s, p, LineTerminators) : EndOk(p + x)})
                t == Max({x \in 0..RunIn(s, p + d, WhiteSpace) :
                            AtLineEnd(s, p + d + x)})
            IN [ok |-> TRUE, len |-> k + w + d + t,
                g1 |-> SubSeq(s, i, i + k - 1),
                g2 |-> SubSeq(s, p, p + d - 1)]

RECURSIVE FixHeadingsFrom(_, _)
\* result.replace(/^(#{1,6})\s+(.+?)\s*$/gm, '$1 $2'), from position i on.
FixHeadingsFrom(s, i) ==
  IF i > Len(s) THEN <<>>
  ELSE LET m == HeadingMatch(s, i)
       IN IF m.ok THEN m.g1 \o <<" ">> \o m.g2 \o FixHeadingsFrom(s, i + m.len)
          ELSE <<s[i]>> \o FixHeadingsFrom(s, i + 1)

FixHeadings(s) == FixHeadingsFrom(s, 1)

RECURSIVE CollapseNewlinesFrom(_, _)
\* result.replace(/\n{3,}/g, '\n\n'), from position i on.
CollapseNewlinesFrom(s, i) ==
  IF i > Len(s) THEN <<>>
  ELSE LET n == RunIn(s, i, {NL})
       IN IF n >= 3 THEN <<NL, NL>> \o CollapseNewlinesFrom(s, i + n)
          ELSE <<s[i]>> \o CollapseNewlinesFrom(s, i + 1)

CollapseNewlines(s) == CollapseNewlinesFrom(s, 1)

RECURSIVE StripTrailingSpacesFrom(_, _)
\* result.replace(/ +$/gm, ''), from position i on.
StripTrailingSpacesFrom(s, i) ==
  IF i > Len(s) THEN <<>>
  ELSE LET n == RunIn(s, i, {" "})
       IN IF n >= 1 /\ AtLineEnd(s, i + n) THEN StripTrailingSpacesFrom(s, i + n)
          ELSE <<s[i]>> \o StripTrailingSpacesFrom(s, i + 1)

StripTrailingSpaces(s) == StripTrailingSpacesFrom(s, 1)

cleanupMarkdown(markdown) ==
  StripTrailingSpaces(CollapseNewlines(FixHeadings(markdown)))


(***************************************************************************)
(* The table rule, converter.ts:37-68.  A table is what the rule reads of  *)
(* it: querySelectorAll('tr') in document order, and of each row           *)
(* querySelectorAll('th, td') in document order, each cell by its          *)
(* textContent.                                                            *)
(***************************************************************************)
\* A variant of escapePipes that leaves the pipes as they are.
escapePipesNone(s) == s

RECURSIVE escapePipes(_)
\* cellText.replace(/\|/g, '\\|')
escapePipes(s) ==
  IF s = <<>> THEN <<>>
  ELSE (IF Head(s) = "|" THEN <<"\\", "|">> ELSE <<Head(s)>>) \o escapePipes(Tail(s))

\* cell.textContent?.trim() || '', then the pipes escaped
cellContent(cellText) == escapePipes(trim(cellText))

cellContents(cells) == [c \in 1..Len(cells) |-> cellContent(cells[c])]

\* `| ${cellContents.join(' | ')} |\n`
rowMarkdown(cells) ==
  Chars("| ") \o join(cellContents(cells), Chars(" | ")) \o Chars(" |") \o <<NL>>

\* `| ${separator} |\n` with separator = cells.map(() => '---').join(' | ')
separatorMarkdown(cells) ==
  Chars("| ") \o join([c \in 1..Len(cells) |-> Chars("---")], Chars(" | "))
    \o Chars(" |") \o <<NL>>

RECURSIVE rowsMarkdownSeparatorEveryRow(_, _)
\* A variant of rowsMarkdown that emits the separator after every row.
rowsMarkdownSeparatorEveryRow(rows, rowIndex) ==
  IF rowIndex > Len(rows) THEN <<>>
  ELSE rowMarkdown(rows[rowIndex]) \o separatorMarkdown(rows[rowIndex])
         \o rowsMarkdownSeparatorEveryRow(rows, rowIndex + 1)

RECURSIVE rowsMarkdown(_, _)
\* rows.forEach((row, rowIndex) => ...), from row rowIndex on (the first row
\* is 1 here, 0 in the code).
rowsMarkdown(rows, rowIndex) ==
  IF rowIndex > Len(rows) THEN <<>>
  ELSE rowMarkdown(rows[rowIndex])
         \o (IF rowIndex = 1 THEN separatorMarkdown(rows[rowIndex]) ELSE <<>>)
         \o rowsMarkdown(rows, rowIndex + 1)

\* A variant of tableReplacement without the test for no rows.
tableReplacementUnguarded(rows) ==
  <<NL, NL>> \o rowsMarkdown(rows, 1) \o <<NL>>

tableReplacement(rows) ==
  IF Len(rows) = 0 THEN <<>>
  ELSE <<NL, NL>> \o rowsMarkdown(rows, 1) \o <<NL>>

(***************************************************************************)
(* The strong and emphasis rules, converter.ts:72-105.                     *)
(***************************************************************************)
\* content.match(/^(\s*)/)?.[1] || ''
leadingWhitespace(content) == Take(content, RunIn(content, 1, WhiteSpace))

\* content.match(/(\s*)$/)?.[1] || '': the leftmost position from which only
\* white space follows.
trailingWhitespace(content) ==
  LET from == Min({i \in 1..(Len(content) + 1) :
                     \A j \in i..Len(content) : content[j] \in WhiteSpace})
  IN Drop(content, from - 1)

\* A variant of strongReplacement that wraps the content as it is (what
\* turndown's own strong rule does).
strongReplacementUnhoisted(content) ==
  IF trim(content) = <<>> THEN <<>>
  ELSE Chars("**") \o content \o Chars("**")

strongReplacement(content) ==
  IF trim(content) = <<>> THEN <<>>
  ELSE leadingWhitespace(content) \o Chars("**") \o trim(content) \o Chars("**")
         \o trailingWhitespace(content)

emphasisReplacement(content) ==
  IF trim(content) = <<>> THEN <<>>
  ELSE leadingWhitespace(content) \o Chars("*") \o trim(content) \o Chars("*")
         \o trailingWhitespace(content)

(***************************************************************************)
(* Attributes.  An attribute is absent or has a string value; getAttribute *)
(* gives null for an absent one, the reflecting properties of an img (alt, *)
(* src, title) give ''.                                                    *)
(***************************************************************************)
Absent == [present |-> FALSE, value |-> <<>>]
Attr(v) == [present |-> TRUE, value |-> v]
\* An absent value where a number, a flag or a record may stand.
NoNumber == [present |-> FALSE, value |-> 0]
NoFlag == [present |-> FALSE, value |-> FALSE]

\* The browser before the extension has shown anything: no Chrome
\* notification, no DOM notification, no timer, no notification id made,
\* no entry in notificationTimeouts (notifications.ts:53), no callback of a
\* notifications call to run.
NoBrowser ==
  [notifications |-> {}, dom |-> {}, timers |-> {}, ids |-> 0,
   timeouts |-> {}, callbacks |-> {}]

\* x || '' for an attribute read: '' for an absent (null) or empty value.
OrEmpty(a) == IF a.present THEN a.value ELSE <<>>

(***************************************************************************)
(* The fenced code block rule, converter.ts:108-123.  A node is read by    *)
(* its nodeName and its child nodes; a child by its nodeName, its class    *)
(* attribute and its textContent.                                          *)
(***************************************************************************)
WordChars ==
  {Chars("abcdefghijklmnopqrstuvwxyzABCDEFGHIJKLMNOPQRSTUVWXYZ0123456789_")[i] :
     i \in 1..63}

IsPrefixAt(s, i, word) ==
  /\ i + Len(word) - 1 <= Len(s)
  /\ SubSeq(s, i, i + Len(word) - 1) = word

\* className.match(/language-(\w+)/)?.[1] || '': the leftmost place where
\* 'language-' is followed by a word character, and the whole run of word
\* characters there.
language(className) ==
  LET word == Chars("language-")
      at == {i \in 1..Len(className) :
               /\ IsPrefixAt(className, i, word)
               /\ RunIn(className, i + Len(word), WordChars) >= 1}
  IN IF at = {} THEN <<>>
     ELSE LET from == Min(at) + Len(word)
          IN SubSeq(className, from, from + RunIn(className, from, WordChars) - 1)

\* The character U+0060, which a TLA+ string cannot hold, and fence: '```'.
Backtick == "[U+0060]"
Fence == <<Backtick, Backtick, Backtick>>

\* A variant of fencedCodeBlockFilter that takes a pre with a code element
\* anywhere among its child nodes.
fencedCodeBlockFilterAnyChild(node) ==
  /\ node.nodeName = "PRE"
  /\ \E i \in 1..Len(node.childNodes) : node.childNodes[i].nodeName = "CODE"

\* A variant of fencedCodeBlockFilter that takes every pre.
fencedCodeBlockFilterEveryPre(node) == node.nodeName = "PRE"

fencedCodeBlockFilter(node) ==
  /\ node.nodeName = "PRE"
  /\ node.childNodes # <<>>
  /\ node.childNodes[1].nodeName = "CODE"

\* codeNode.getAttribute('class') raises a TypeError when node.firstChild is
\* null or a text node, which have no getAttribute; nothing else in the
\* replacements of the custom rules can raise (content is a string, the
\* nodes of the other rules are the elements their filters name, and
\* textContent and match are read through ?. and ||).
fencedCodeBlockRaises(node) ==
  \/ node.childNodes = <<>>
  \/ node.childNodes[1].nodeName = "#text"

fencedCodeBlockReplacement(node) ==
  LET codeNode == node.childNodes[1]
      className == OrEmpty(codeNode.class)
  IN <<NL, NL>> \o Fence \o language(className) \o <<NL>>
       \o codeNode.textContent \o <<NL>> \o Fence \o <<NL, NL>>

(***************************************************************************)
(* The image rule, converter.ts:126-136.                                   *)
(***************************************************************************)
\* A variant of imageReplacement without the 'image' default for the alt
\* text (what turndown's own image rule does).
imageReplacementNoDefaultAlt(img) ==
  LET alt == OrEmpty(img.alt)
      src == OrEmpty(img.src)
      title == IF OrEmpty(img.title) # <<>>
               THEN Chars(" \"") \o OrEmpty(img.title) \o Chars("\"")
               ELSE <<>>
  IN IF src # <<>>
     THEN Chars("![") \o alt \o Chars("](") \o src \o title \o Chars(")")
     ELSE <<>>

imageReplacement(img) ==
  LET alt == IF OrEmpty(img.alt) # <<>> THEN OrEmpty(img.alt) ELSE Chars("image")
      src == OrEmpty(img.src)
      title == IF OrEmpty(img.title) # <<>>
               THEN Chars(" \"") \o OrEmpty(img.title) \o Chars("\"")
               ELSE <<>>
  IN IF src # <<>>
     THEN Chars("![") \o alt \o Chars("](") \o src \o title \o Chars(")")
     ELSE <<>>

(***************************************************************************)
(* turndownService.turndown(html), converter.ts:140 and 160, with the      *)
(* options of converter.ts:21-31 (headingStyle 'atx').  html is the node   *)
(* list the HTML string parses to: '' is the empty list, a white-space-    *)
(* only string is a single text node.  The elements of the documents here  *)
(* are h1..h6 and p with plain text (letters and single inner spaces),     *)
(* which turndown's escaping and white-space collapsing leave unchanged.   *)
(***************************************************************************)
IsText(node) == node.nodeName = "#text"

Headings == {"H1", "H2", "H3", "H4", "H5", "H6"}

headingLevel(node) ==
  CASE node.nodeName = "H1" -> 1 [] node.nodeName = "H2" -> 2
    [] node.nodeName = "H3" -> 3 [] node.nodeName = "H4" -> 4
    [] node.nodeName = "H5" -> 5 [] node.nodeName = "H6" -> 6

repeat(c, n) == [i \in 1..n |-> c]

\* collapseWhitespace: a text node of white space only collapses to one
\* space, which is dropped at the start of the root and after a block
\* element, and the emptied node is removed.  h1..h6 and p are block elements.
collapseWhitespace(html) == SelectSeq(html, LAMBDA node : ~IsText(node))

\* The options object the constructor hands to TurndownService; of its keys
\* headingStyle and hr are kept.
ConstructorOptions == [headingStyle |-> "atx", hr |-> "---"]

\* The replacement of turndown's heading rule, which reads options.headingStyle
\* at every call: setext underlines h1 and h2, atx otherwise.
headingReplacement(tdOptions, node) ==
  IF tdOptions.headingStyle = "setext" /\ headingLevel(node) < 3
  THEN <<NL, NL>> \o node.text \o <<NL>>
         \o repeat(IF headingLevel(node) = 1 THEN "=" ELSE "-", Len(node.text))
         \o <<NL, NL>>
  ELSE <<NL, NL>> \o repeat("#", headingLevel(node)) \o <<" ">> \o node.text
         \o <<NL, NL>>

\* The replacement of turndown's heading rule and paragraph rule.
replacementFor(tdOptions, node) ==
  IF node.nodeName \in Headings THEN headingReplacement(tdOptions, node)
  ELSE <<NL, NL>> \o node.text \o <<NL, NL>>

\* The same on a newly constructed converter.
defaultReplacement(node) == replacementFor(ConstructorOptions, node)

trimLeadingNewlines(s) == Drop(s, RunIn(s, 1, {NL}))

RECURSIVE trimTrailingNewlines(_)
trimTrailingNewlines(s) ==
  IF s # <<>> /\ s[Len(s)] = NL THEN trimTrailingNewlines(Take(s, Len(s) - 1))
  ELSE s

\* turndown's join(output, replacement): at most two newlines between blocks.
turndownJoin(output, replacement) ==
  LET s1 == trimTrailingNewlines(output)
      s2 == trimLeadingNewlines(replacement)
      a == Len(output) - Len(s1)
      b == Len(replacement) - Len(s2)
      nls == IF a > b THEN a ELSE b
  IN s1 \o Take(<<NL, NL>>, IF nls > 2 THEN 2 ELSE nls) \o s2

RECURSIVE processWith(_, _, _)
\* turndown's process: the replacements of the child nodes, joined.
processWith(tdOptions, nodes, output) ==
  IF nodes = <<>> THEN output
  ELSE processWith(tdOptions, Tail(nodes),
                   turndownJoin(output, replacementFor(tdOptions, Head(nodes))))

process(nodes, output) == processWith(ConstructorOptions, nodes, output)

RECURSIVE trimEnd(_)
trimEnd(s) ==
  IF s # <<>> /\ s[Len(s)] \in WhiteSpace THEN trimEnd(Take(s, Len(s) - 1)) ELSE s

\* turndown's postProcess: .replace(/^[\t\r\n]+/, '').replace(/[\t\r\n\s]+$/, '')
postProcess(output) == trimEnd(Drop(output, RunIn(output, 1, {"\t", "\r", NL})))

\* this.turndownService.turndown(html) on an instance whose
\* turndownService.options are tdOptions.
turndownWith(tdOptions, html) ==
  IF html = <<>> THEN <<>>
  ELSE postProcess(processWith(tdOptions, collapseWhitespace(html), <<>>))

\* The same on a newly constructed converter.
turndown(html) == turndownWith(ConstructorOptions, html)

(***************************************************************************)
(* convert, convertWithMetadata and generateMetadata, converter.ts:139-199.*)
(* now is what new Date().toISOString() returns during the call.           *)
(***************************************************************************)
MetadataRule == <<NL, NL>> \o Chars("---") \o <<NL, NL>>

\* JavaScript truthiness of an optional string.
Truthy(a) == a.present /\ a.value # <<>>

\* A variant of generateMetadata that tests url !== undefined.
generateMetadataIfDefined(url, now) ==
  LET metadata == <<Chars("Captured: ") \o now>>
  IN join(IF url.present THEN <<Chars("Source: ") \o url.value>> \o metadata
          ELSE metadata,
          <<NL>>)

generateMetadata(url, now) ==
  LET metadata == <<Chars("Captured: ") \o now>>
  IN join(IF Truthy(url) THEN <<Chars("Source: ") \o url.value>> \o metadata
          ELSE metadata,
          <<NL>>)

\* A variant of convert that tests options.includeMetadata !== false.
convertUnlessFalse(html, options, now) ==
  LET markdown == cleanupMarkdown(turndown(html))
  IN IF options.includeMetadata # "false"
     THEN generateMetadata(options.baseUrl, now) \o MetadataRule \o markdown
     ELSE markdown

\* convert on an instance whose turndownService.options are tdOptions.
convertWith(tdOptions, html, opts, now) ==
  LET markdown == cleanupMarkdown(turndownWith(tdOptions, html))
  IN IF opts.includeMetadata = "true"
     THEN generateMetadata(opts.baseUrl, now) \o MetadataRule \o markdown
     ELSE markdown

\* convert on a newly constructed converter.
convert(html, opts, now) == convertWith(ConstructorOptions, html, opts, now)

\* A variant of convertWithMetadata that leaves out the cleanup pass.
convertWithMetadataNoCleanup(html, title, url, now) ==
  LET timestamp == now
      metadata == Chars("Source: [") \o title \o Chars("](") \o url \o Chars(")")
                    \o <<NL>> \o Chars("Captured: ") \o timestamp
      markdown == turndown(html)
  IN [markdown |-> metadata \o MetadataRule \o markdown,
      metadata |-> [title |-> title, url |-> url, timestamp |-> timestamp]]

\* convertWithMetadata on an instance whose turndownService.options are
\* tdOptions.
convertWithMetadataWith(tdOptions, html, title, url, now) ==
  LET timestamp == now
      metadata == Chars("Source: [") \o title \o Chars("](") \o url \o Chars(")")
                    \o <<NL>> \o Chars("Captured: ") \o timestamp
      markdown == cleanupMarkdown(turndownWith(tdOptions, html))
  IN [markdown |-> metadata \o MetadataRule \o markdown,
      metadata |-> [title |-> title, url |-> url, timestamp |-> timestamp]]

\* convertWithMetadata on a newly constructed converter.
convertWithMetadata(html, title, url, now) ==
  convertWithMetadataWith(ConstructorOptions, html, title, url, now)

\* A variant of setOption that writes the option of every instance.
setOptionEveryInstance(instanceOptions, instance, key, value) ==
  [i \in DOMAIN instanceOptions |-> [instanceOptions[i] EXCEPT ![key] = value]]

\* setOption(key, value) on an instance: this.turndownService.options[key] =
\* value.  instanceOptions maps every instance to its options.
setOption(instanceOptions, instance, key, value) ==
  [instanceOptions EXCEPT ![instance] = [@ EXCEPT ![key] = value]]

(***************************************************************************)
(* The DOM the extractor of src/unnamed/part_001 works on.  An element is  *)
(* its lower-case tag name, its attributes (a function from attribute      *)
(* names to values), the text of its leading text node and its child       *)
(* elements in order.  A place in a tree is a path: the child indexes from *)
(* the root down.  The HTML that innerHTML serializes is kept as the list  *)
(* of the child elements it describes (with the leading text beside it).   *)
(***************************************************************************)
El(tag, attrs, text, children) ==
  [tag |-> tag, attrs |-> attrs, text |-> text, children |-> children]

NoAttrs == <<>>

\* el.getAttribute(name): null for an absent attribute.
getAttribute(el, name) ==
  IF name \in DOMAIN el.attrs THEN Attr(el.attrs[name]) ELSE Absent

\* el.removeAttribute(name).
removeAttribute(el, name) ==
  [el EXCEPT !.attrs = [n \in (DOMAIN el.attrs) \ {name} |-> el.attrs[n]]]

RECURSIVE NodeAt(_, _)
NodeAt(node, path) ==
  IF path = <<>> THEN node ELSE NodeAt(node.children[Head(path)], Tail(path))

RECURSIVE ReplaceAt(_, _, _)
\* The tree with the element at path replaced.
ReplaceAt(node, path, new) ==
  IF path = <<>> THEN new
  ELSE [node EXCEPT !.children[Head(path)] = ReplaceAt(@, Tail(path), new)]

RECURSIVE DescendantPaths(_)
\* The paths of the descendants of an element, in document order.
DescendantPaths(node) ==
  LET n == Len(node.children)
      below[i \in 0..n] ==
        IF i = 0 THEN <<>>
        ELSE LET sub == DescendantPaths(node.children[i])
             IN below[i - 1] \o << <<i>> >> \o [k \in 1..Len(sub) |-> <<i>> \o sub[k]]
  IN below[n]

RECURSIVE textContent(_)
\* el.textContent: the text of the element and of its descendants, in order.
\* innerText of an element that is not rendered (a clone, a detached
\* container) is its textContent.
textContent(node) ==
  LET n == Len(node.children)
      upTo[i \in 0..n] ==
        IF i = 0 THEN node.text ELSE upTo[i - 1] \o textContent(node.children[i])
  IN upTo[n]

(***************************************************************************)
(* Selectors.  A simple selector names a tag, an id, a class or an         *)
(* attribute test (= or *=), each optional; a selector list matches what   *)
(* one of its selectors matches.                                           *)
(***************************************************************************)
Unset == ""
Simple(tag, id, class, attr, test, value) ==
  [tag |-> tag, id |-> id, class |-> class, attr |-> attr, test |-> test,
   value |-> value]
Tag(t) == Simple(t, Unset, Unset, Unset, Unset, <<>>)
Id(i) == Simple(Unset, i, Unset, Unset, Unset, <<>>)
Class(c) == Simple(Unset, Unset, c, Unset, Unset, <<>>)
AttrEquals(a, v) == Simple(Unset, Unset, Unset, a, "=", Chars(v))
AttrContains(a, v) == Simple(Unset, Unset, Unset, a, "*=", Chars(v))
TagAttrContains(t, a, v) == Simple(t, Unset, Unset, a, "*=", Chars(v))

\* s.includes(part).
Includes(s, part) == \E i \in 1..(Len(s) + 1) : IsPrefixAt(s, i, part)

matches(el, sel) ==
  /\ sel.tag # Unset => el.tag = sel.tag
  /\ sel.id # Unset => getAttribute(el, "id") = Attr(Chars(sel.id))
  /\ sel.class # Unset =>
       /\ getAttribute(el, "class").present
       /\ \E i \in 1..Len(el.attrs["class"]), j \in 1..Len(el.attrs["class"]) :
            /\ i <= j
            /\ SubSeq(el.attrs["class"], i, j) = Chars(sel.class)
            /\ i = 1 \/ el.attrs["class"][i - 1] \in WhiteSpace
            /\ j = Len(el.attrs["class"]) \/ el.attrs["class"][j + 1] \in WhiteSpace
  /\ sel.attr # Unset =>
       /\ getAttribute(el, sel.attr).present
       /\ IF sel.test = "=" THEN el.attrs[sel.attr] = sel.value
          ELSE sel.value # <<>> /\ Includes(el.attrs[sel.attr], sel.value)

matchesList(el, selectors) == \E sel \in selectors : matches(el, sel)

\* root.querySelectorAll(selectors): the descendants that match, in
\* document order, as paths from root.
querySelectorAll(root, selectors) ==
  SelectSeq(DescendantPaths(root),
            LAMBDA path : matchesList(NodeAt(root, path), selectors))

\* root.querySelector(selectors): the first of them, or null.
\* null stands as a path no element has.
Null == <<0>>
querySelector(root, selectors) ==
  IF querySelectorAll(root, selectors) = <<>> THEN Null
  ELSE querySelectorAll(root, selectors)[1]

(***************************************************************************)
(* DOMExtractor, src/unnamed/part_001:21-265.                              *)
(***************************************************************************)
\* A variant of removeMatching that removes child elements only.
removeMatchingChildren(node, selectors) ==
  [node EXCEPT !.children =
     SelectSeq(node.children, LAMBDA child : ~matchesList(child, selectors))]

RECURSIVE removeMatching(_, _)
\* element.querySelectorAll(selectors).forEach((el) => el.remove()): the
\* list is made before the first removal, and removing an element takes its
\* descendants with it.
removeMatching(node, selectors) ==
  LET kept == SelectSeq(node.children,
                        LAMBDA child : ~matchesList(child, selectors))
  IN [node EXCEPT !.children =
        [i \in 1..Len(kept) |-> removeMatching(kept[i], selectors)]]

HiddenSelectors ==
  {AttrContains("style", "display: none"), AttrContains("style", "display:none")}

unwantedSelectors ==
  <<Class("advertisement"), Class("ads"), Class("ad-container"),
    AttrContains("class", "cookie-banner"), AttrContains("class", "cookie-consent"),
    Class("social-share"), Class("newsletter-signup"),
    TagAttrContains("iframe", "src", "youtube.com"),
    TagAttrContains("iframe", "src", "twitter.com")>>

RECURSIVE removeEach(_, _)
\* unwantedSelectors.forEach(...)
removeEach(node, selectors) ==
  IF selectors = <<>> THEN node
  ELSE removeEach(removeMatching(node, {Head(selectors)}), Tail(selectors))

startsWith(name, prefix) == IsPrefixAt(Chars(name), 1, Chars(prefix))

\* A variant of withoutAttributes that leaves no attribute.
withoutAnyAttribute(el, prefix) == [el EXCEPT !.attrs = NoAttrs]

\* The element without its attributes whose name starts with prefix.
withoutAttributes(el, prefix) ==
  [el EXCEPT !.attrs =
     [n \in {a \in DOMAIN el.attrs : ~startsWith(a, prefix)} |-> el.attrs[n]]]

RECURSIVE removeAttributesBelow(_, _)
\* element.querySelectorAll('*').forEach(...): every descendant, not the
\* element itself, loses its attributes whose name starts with prefix.
removeAttributesBelow(node, prefix) ==
  [node EXCEPT !.children =
     [i \in 1..Len(node.children) |->
        removeAttributesBelow(withoutAttributes(node.children[i], prefix), prefix)]]

removeUnwantedElements(element) ==
  LET scripts == removeMatching(element, {Tag("script")})
      styles == removeMatching(scripts, {Tag("style")})
      hidden == removeMatching(styles, HiddenSelectors)
      unwanted == removeEach(hidden, unwantedSelectors)
  IN removeAttributesBelow(unwanted, "data-")

mainSelectors ==
  <<Tag("main"), Tag("article"), AttrEquals("role", "main"), Id("main"),
    Id("content"), Class("main-content"), Class("content"), Class("post-content"),
    Class("entry-content"), Class("article-content"), Class("page-content")>>

\* A variant of firstListed: the first element in document order that
\* matches any of the selectors.
firstOfAnySelector(element, selectors) ==
  querySelector(element, {selectors[i] : i \in 1..Len(selectors)})

RECURSIVE firstListed(_, _)
\* for (const selector of mainSelectors): the first match of the first
\* selector that has one, or null.
firstListed(element, selectors) ==
  IF selectors = <<>> THEN Null
  ELSE IF querySelector(element, {Head(selectors)}) # Null
       THEN querySelector(element, {Head(selectors)})
       ELSE firstListed(element, Tail(selectors))

\* A variant of largestBlock where a block as long as the largest so far
\* replaces it.
largestBlockLastWins(element) ==
  LET contentBlocks ==
        querySelectorAll(element, {Tag("div"), Tag("section"), Tag("article")})
      n == Len(contentBlocks)
      size(k) == Len(textContent(NodeAt(element, contentBlocks[k])))
      largest[k \in 0..n] ==
        IF k = 0 THEN [largestBlock |-> Null, largestSize |-> 0]
        ELSE IF size(k) >= largest[k - 1].largestSize
             THEN [largestBlock |-> contentBlocks[k], largestSize |-> size(k)]
             ELSE largest[k - 1]
  IN largest[n].largestBlock

\* The largest content block: contentBlocks.forEach with largestBlock and
\* largestSize.
largestBlock(element) ==
  LET contentBlocks ==
        querySelectorAll(element, {Tag("div"), Tag("section"), Tag("article")})
      n == Len(contentBlocks)
      size(k) == Len(textContent(NodeAt(element, contentBlocks[k])))
      largest[k \in 0..n] ==
        IF k = 0 THEN [largestBlock |-> Null, largestSize |-> 0]
        ELSE IF size(k) > largest[k - 1].largestSize
             THEN [largestBlock |-> contentBlocks[k], largestSize |-> size(k)]
             ELSE largest[k - 1]
  IN largest[n].largestBlock

findMainContent(element) ==
  IF firstListed(element, mainSelectors) # Null
  THEN firstListed(element, mainSelectors)
  ELSE largestBlock(element)

(***************************************************************************)
(* The live document: the text of its title element if it has one, its     *)
(* URL and its tree (html, with head and body as its children).  An        *)
(* element the code holds is a reference: an element of the                *)
(* live tree at a path, or one that is no part of it (a clone, a created   *)
(* element).  What the code removes from an element of the live tree is    *)
(* removed from the document.                                              *)
(***************************************************************************)
BodyPath == <<2>>

LiveRef(doc, path) == [live |-> TRUE, path |-> path, node |-> NodeAt(doc.root, path)]
Detached(node) == [live |-> FALSE, path |-> <<>>, node |-> node]

\* A variant of cloneNode that hands back the element itself.
cloneNodeSameElement(ref) == ref

\* element.cloneNode(true)
cloneNode(ref) == Detached(ref.node)

\* The document after the element ref refers to has become node.
written(doc, ref, node) ==
  IF ref.live THEN [doc EXCEPT !.root = ReplaceAt(@, ref.path, node)] ELSE doc

\* element.innerHTML
innerHTML(el) == [text |-> el.text, children |-> el.children]

\* document.title: the text of the title element, white space stripped, ''
\* without a title element.
documentTitle(doc) == trim(OrEmpty(doc.title))

\* A variant of titleOrUntitled without the fallback.
titleAsIs(title) == title

\* document.title || 'Untitled'
titleOrUntitled(title) == IF title # <<>> THEN title ELSE Chars("Untitled")

Meta(attr, value) == {Simple("meta", Unset, Unset, attr, "=", Chars(value))}

\* x || y for two querySelector results.
OrElse(first, second) == IF first # Null THEN first ELSE second

\* meta ? meta.getAttribute('content') || undefined : undefined; undefined
\* is an absent value.
contentOf(doc, meta) ==
  IF meta = Null THEN Absent
  ELSE IF OrEmpty(getAttribute(NodeAt(doc.root, meta), "content")) # <<>>
       THEN getAttribute(NodeAt(doc.root, meta), "content")
       ELSE Absent

\* A variant of descriptionMeta that asks for the meta description first.
descriptionMetaGenericFirst(doc) ==
  OrElse(querySelector(doc.root, Meta("name", "description")),
         querySelector(doc.root, Meta("property", "og:description")))

descriptionMeta(doc) ==
  OrElse(querySelector(doc.root, Meta("property", "og:description")),
         querySelector(doc.root, Meta("name", "description")))

authorMeta(doc) ==
  OrElse(querySelector(doc.root, Meta("name", "author")),
         querySelector(doc.root, Meta("property", "article:author")))

publishedMeta(doc) ==
  OrElse(querySelector(doc.root, Meta("property", "article:published_time")),
         querySelector(doc.root, Meta("name", "publish_date")))

extractPageMetadata(doc) ==
  [title |-> titleOrUntitled(documentTitle(doc)),
   url |-> doc.url,
   description |-> contentOf(doc, descriptionMeta(doc)),
   author |-> contentOf(doc, authorMeta(doc)),
   publishedTime |-> contentOf(doc, publishedMeta(doc))]

\* null as the result of an operation.
NoResult == [null |-> TRUE]

\* Each operation gives what it returns and the document it leaves.
extractFullPage(doc) ==
  LET bodyClone == cloneNode(LiveRef(doc, BodyPath))
      cleaned == removeUnwantedElements(bodyClone.node)
      after == written(doc, bodyClone, cleaned)
      main == findMainContent(cleaned)
      mainContent == IF main # Null THEN NodeAt(cleaned, main) ELSE cleaned
  IN [document |-> after,
      result |-> [html |-> innerHTML(mainContent),
                  text |-> textContent(mainContent),
                  metadata |-> extractPageMetadata(after)]]

extractFromSelector(doc, selector) ==
  LET element == querySelector(doc.root, selector)
      clonedElement == cloneNode(LiveRef(doc, element))
      cleaned == removeUnwantedElements(clonedElement.node)
      after == written(doc, clonedElement, cleaned)
  IN IF element = Null THEN [document |-> doc, result |-> NoResult]
     ELSE [document |-> after,
           result |-> [html |-> innerHTML(cleaned),
                       text |-> textContent(cleaned),
                       metadata |-> extractPageMetadata(after)]]

(***************************************************************************)
(* The selection window.getSelection() gives when extractSelection is      *)
(* called: none (null), or its ranges, of which                            *)
(* the first is read.  A range lies in the element at range.ancestor: it   *)
(* holds range.text of the element's text and its child elements from      *)
(* range.from to range.to (none when from > to); with inText it lies       *)
(* inside the text node, which then is its common ancestor.                *)
(***************************************************************************)
NoSelection == [exists |-> FALSE, ranges |-> <<>>]
SelectionOf(ranges) == [exists |-> TRUE, ranges |-> ranges]

\* range.cloneContents(): clones of what the range holds.
cloneContents(doc, range) ==
  [text |-> range.text,
   children |-> SubSeq(NodeAt(doc.root, range.ancestor).children,
                       range.from, range.to)]

RECURSIVE textOfAll(_)
textOfAll(nodes) ==
  IF nodes = <<>> THEN <<>> ELSE textContent(Head(nodes)) \o textOfAll(Tail(nodes))

\* selection.toString()
selectionToString(doc, range) ==
  range.text \o textOfAll(cloneContents(doc, range).children)

extractSelection(doc, selection) ==
  LET range == selection.ranges[1]
      clonedContents == cloneContents(doc, range)
      container == El("div", NoAttrs, clonedContents.text, clonedContents.children)
      cleaned == removeUnwantedElements(container)
      context == IF ~range.inText
                 THEN Attr(Chars(NodeAt(doc.root, range.ancestor).tag))
                 ELSE Absent
  IN IF ~selection.exists \/ Len(selection.ranges) = 0
     THEN [document |-> doc, result |-> NoResult]
     ELSE [document |-> doc,
           result |-> [html |-> innerHTML(cleaned),
                       text |-> selectionToString(doc, range),
                       context |-> context]]

\* A variant of sanitizeHtml that runs the whole noise removal.
sanitizeHtmlAsNoiseRemoval(doc, html) ==
  [document |-> doc,
   result |-> innerHTML(removeUnwantedElements(
                          El("div", NoAttrs, html.text, html.children)))]

\* sanitizeHtml(html): html is parsed into a created div.
sanitizeHtml(doc, html) ==
  LET temp == El("div", NoAttrs, html.text, html.children)
      scripts == removeMatching(temp, {Tag("script")})
  IN [document |-> doc,
      result |-> innerHTML(removeAttributesBelow(scripts, "on"))]

(***************************************************************************)
(* checkContentSize, part_001:143-147.  Its html is described by runs of   *)
(* characters: count characters that each take units UTF-16 code units in  *)
(* the string and bytes bytes in UTF-8, which is what new Blob([html]).size*)
(* counts.                                                                 *)
(***************************************************************************)
DefaultThreshold == 1048576

RECURSIVE sizeInBytes(_)
sizeInBytes(html) ==
  IF html = <<>> THEN 0
  ELSE Head(html).count * Head(html).bytes + sizeInBytes(Tail(html))

RECURSIVE stringLength(_)
\* html.length
stringLength(html) ==
  IF html = <<>> THEN 0
  ELSE Head(html).count * Head(html).units + stringLength(Tail(html))

\* A variant of checkContentSize that compares html.length.
checkContentLength(html, threshold) ==
  stringLength(html) > (IF threshold.present THEN threshold.value
                        ELSE DefaultThreshold)

checkContentSize(html, threshold) ==
  sizeInBytes(html) > (IF threshold.present THEN threshold.value
                       ELSE DefaultThreshold)

(***************************************************************************)
(* ClipboardUtil, src/src/utils/clipboard.ts.  Content is given by runs of *)
(* characters, as for checkContentSize; what is written or downloaded is   *)
(* a body and whether the truncation notice follows it.  Titles, file      *)
(* names and messages are character sequences.                             *)
(***************************************************************************)
DEFAULT_OPTIONS ==
  [maxSize |-> 1048576, truncateAt |-> 50000, useDownloadFallback |-> TRUE]

\* { ...this.options, ...options }: a field of options that is given wins.
Configured(instanceOptions, options) ==
  [k \in DOMAIN instanceOptions |->
     IF options.present /\ options.value[k].present
     THEN options.value[k].value ELSE instanceOptions[k]]

\* truncationMessage.length; the message is ASCII.
NoticeLength == 49

\* calculateSize(content): new Blob([content]).size
calculateSize(content) ==
  sizeInBytes(content.body) + (IF content.notice THEN NoticeLength ELSE 0)

Whole(body) == [body |-> body, notice |-> FALSE]

RECURSIVE substring(_, _)
\* content.substring(0, n): the first n code units.  A character of two
\* code units cut in the middle leaves a lone surrogate, which takes three
\* bytes in a Blob.
substring(body, n) ==
  IF body = <<>> \/ n <= 0 THEN <<>>
  ELSE LET run == Head(body)
           fit == Min({run.count, n \div run.units})
           left == n - fit * run.units
       IN (IF fit > 0 THEN <<[run EXCEPT !.count = fit]>> ELSE <<>>)
            \o (IF fit = run.count THEN substring(Tail(body), left)
                ELSE IF left > 0 THEN <<[bytes |-> 3, units |-> 1, count |-> 1]>>
                ELSE <<>>)

\* A variant of truncateContent that measures the content in bytes.
truncateContentByBytes(body, maxSize) ==
  IF sizeInBytes(body) <= maxSize THEN Whole(body)
  ELSE IF maxSize - NoticeLength <= 0 THEN [body |-> <<>>, notice |-> TRUE]
  ELSE [body |-> substring(body, maxSize - NoticeLength), notice |-> TRUE]

truncateContent(body, maxSize) ==
  IF stringLength(body) <= maxSize THEN Whole(body)
  ELSE IF maxSize - NoticeLength <= 0 THEN [body |-> <<>>, notice |-> TRUE]
  ELSE [body |-> substring(body, maxSize - NoticeLength), notice |-> TRUE]

InvalidFilenameChars == {"<", ">", ":", "\"", "/", "\\", "|", "?", "*"}
Separators == {"-", "_"}

\* s.replace(/[<>:"/\\|?*]/g, '-')
replaceInvalid(s) ==
  [i \in 1..Len(s) |-> IF s[i] \in InvalidFilenameChars THEN "-" ELSE s[i]]

RECURSIVE RunBefore(_, _, _)
\* Length of the longest run of characters of C that ends at s[i].
RunBefore(s, i, C) ==
  IF i < 1 \/ s[i] \notin C THEN 0 ELSE 1 + RunBefore(s, i - 1, C)

\* s.replace(/[C]{least,}/g, by): every maximal run of at least least
\* characters of C becomes by.
replaceRuns(s, C, least, by) ==
  LET Dropped == ""
      at(i) ==
        IF RunBefore(s, i, C) + RunIn(s, i, C) - 1 < least THEN s[i]
        ELSE IF RunBefore(s, i, C) = 1 THEN by
        ELSE Dropped
  IN SelectSeq([i \in 1..Len(s) |-> at(i)], LAMBDA c : c # Dropped)

\* s.replace(/^[-_]+|[-_]+$/g, '')
trimSeparators(s) ==
  LET rest == Drop(s, RunIn(s, 1, Separators))
      keep == IF rest = <<>> THEN 0
              ELSE Max({n \in 1..Len(rest) : rest[n] \notin Separators})
  IN Take(rest, keep)

MaxNameLength == 100

\* The sanitized title, clipboard.ts:224-229.
sanitized(baseTitle) ==
  LET invalid == replaceInvalid(baseTitle)
      spaces == replaceRuns(invalid, WhiteSpace, 1, "_")
      separators == replaceRuns(spaces, Separators, 2, "_")
      trimmed == trimSeparators(separators)
  IN Take(trimmed, Min({MaxNameLength, Len(trimmed)}))

\* s.replace('T', '_'): the first T only.
replaceFirst(s, from, by) ==
  IF \E i \in 1..Len(s) : s[i] = from
  THEN LET i == Min({k \in 1..Len(s) : s[k] = from})
       IN Take(s, i - 1) \o <<by>> \o Drop(s, i)
  ELSE s

\* new Date().toISOString().slice(0, 19).replace(/:/g, '-').replace('T', '_')
filenameTimestamp(now) ==
  LET sliced == Take(now, Min({19, Len(now)}))
      colons == [i \in 1..Len(sliced) |-> IF sliced[i] = ":" THEN "-" ELSE sliced[i]]
  IN replaceFirst(colons, "T", "_")

\* generateFilename(title, extension = 'md') at the time now.
generateFilename(title, extension, now) ==
  LET baseTitle == IF title.present /\ title.value # <<>> THEN title.value
                   ELSE Chars("markdownified-content")
      ext == IF extension.present THEN extension.value ELSE Chars("md")
  IN sanitized(baseTitle) \o <<"_">> \o filenameTimestamp(now) \o <<".">> \o ext

\* A variant of route that downloads whatever the fallback option says.
routeBySizeAlone(originalSize, config) ==
  IF originalSize > config.maxSize THEN "download"
  ELSE IF originalSize <= config.truncateAt THEN "clipboard"
  ELSE "truncated"

\* The branch of the try block, clipboard.ts:55-87.
route(originalSize, config) ==
  IF originalSize > config.maxSize /\ config.useDownloadFallback THEN "download"
  ELSE IF originalSize <= config.truncateAt THEN "clipboard"
  ELSE "truncated"

\* A variant of fallbackAllowed that does not read the option.
fallbackWithMetadata(config, metadata) == metadata.present

\* config.useDownloadFallback && metadata, clipboard.ts:93.
fallbackAllowed(config, metadata) ==
  config.useDownloadFallback /\ metadata.present

\* A thrown value: an Error with its message, or another value.
Error(message) == [isError |-> TRUE, message |-> Chars(message)]
Thrown(value) == [isError |-> FALSE, message |-> Chars(value)]

\* `${error}`
toString(error) ==
  IF error.isError THEN Chars("Error: ") \o error.message ELSE error.message

\* What downloadFile throws when the download fails with error,
\* clipboard.ts:211-214.
downloadError(error) ==
  [isError |-> TRUE,
   message |-> Chars("Failed to download file: ") \o toString(error)]

\* error instanceof Error ? error.message : 'Unknown clipboard error'
errorMessage(error) ==
  IF error.isError THEN error.message ELSE Chars("Unknown clipboard error")

ClipboardResult(success, method, filename, originalSize, finalSize, error) ==
  [success |-> success, method |-> method, filename |-> filename,
   originalSize |-> originalSize, finalSize |-> finalSize, error |-> error]

(***************************************************************************)
(* Inputs.                                                                 *)
(***************************************************************************)
MaxNodes == 2

\* An element without children: a shape.  The forests of n elements made of
\* the shapes of a set.
Shape(tag, attrs, text) == [tag |-> tag, attrs |-> attrs, text |-> text]

RECURSIVE ForestsOfSize(_, _)
ForestsOfSize(shapes, n) ==
  IF n = 0 THEN {<<>>}
  ELSE UNION {{<<El(sh.tag, sh.attrs, sh.text, below)>> \o after :
                 sh \in shapes, below \in ForestsOfSize(shapes, k - 1),
                 after \in ForestsOfSize(shapes, n - k)} : k \in 1..n}

ForestsUpTo(shapes, n) == UNION {ForestsOfSize(shapes, k) : k \in 0..n}

\* Elements removeUnwantedElements removes, and ones it keeps: hidden by
\* either spelling, a class among several, a class holding a denylisted
\* part, an embed; an element with data- and on attributes, another style,
\* another iframe.
NoiseShapes ==
  {Shape("script", NoAttrs, <<"s">>),
   Shape("style", NoAttrs, <<"s">>),
   Shape("div", "style" :> Chars("display: none"), <<"h">>),
   Shape("span", "style" :> Chars("color:red;display:none"), <<"h">>),
   Shape("div", "style" :> Chars("display: block"), <<"a">>),
   Shape("div", "class" :> Chars("top ads"), <<"n">>),
   Shape("div", "class" :> Chars("x-cookie-banner-y"), <<"n">>),
   Shape("iframe", "src" :> Chars("https://www.youtube.com/embed/x"), <<>>),
   Shape("p", ("data-id" :> <<"1">>) @@ ("onclick" :> Chars("f()")), <<"a">>),
   Shape("main", "data-x" :> <<>>, <<"a">>)}

\* One element for each selector of the denylist, and near misses.
DenylistShapes ==
  {Shape("div", "class" :> Chars("advertisement"), <<"n">>),
   Shape("div", "class" :> Chars("ads"), <<"n">>),
   Shape("div", "class" :> Chars("ad-container"), <<"n">>),
   Shape("div", "class" :> Chars("cookie-consent"), <<"n">>),
   Shape("div", "class" :> Chars("social-share"), <<"n">>),
   Shape("div", "class" :> Chars("newsletter-signup"), <<"n">>),
   Shape("iframe", "src" :> Chars("https://twitter.com/x"), <<>>),
   Shape("iframe", "src" :> Chars("https://example.com/"), <<>>),
   Shape("div", "class" :> Chars("adsense"), <<"a">>),
   Shape("article", "data-x" :> <<"1">>, <<"a">>)}

\* One element for each selector of mainSelectors.
LandmarkShapes ==
  {Shape("main", NoAttrs, <<"1">>),
   Shape("article", NoAttrs, <<"2">>),
   Shape("div", "role" :> Chars("main"), <<"3">>),
   Shape("div", "id" :> Chars("main"), <<"4">>),
   Shape("div", "id" :> Chars("content"), <<"5">>),
   Shape("div", "class" :> Chars("main-content"), <<"6">>),
   Shape("div", "class" :> Chars("content"), <<"7">>),
   Shape("div", "class" :> Chars("post-content"), <<"8">>),
   Shape("div", "class" :> Chars("entry-content"), <<"9">>),
   Shape("div", "class" :> Chars("article-content"), <<"a">>),
   Shape("div", "class" :> Chars("page-content"), <<"b">>)}

\* Blocks no selector of mainSelectors matches, with texts of several
\* lengths, and elements that are no blocks.
BlockShapes ==
  {Shape("div", NoAttrs, <<>>),
   Shape("div", NoAttrs, <<"a">>),
   Shape("div", "class" :> Chars("contents"), Chars("bb")),
   Shape("section", NoAttrs, Chars("cc")),
   Shape("p", NoAttrs, Chars("ddd")),
   Shape("img", "src" :> Chars("https://example.com/image.jpg"), <<>>)}

Families == {NoiseShapes, DenylistShapes, LandmarkShapes, BlockShapes}

Body(children) == El("body", "data-theme" :> Chars("dark"), <<>>, children)
Bodies == {Body(f) : f \in UNION {ForestsUpTo(shapes, MaxNodes) : shapes \in Families}}

\* The meta elements of a head.
MetaEl(attr, value, content) ==
  El("meta", (attr :> Chars(value)) @@ content, <<>>, <<>>)
Content(value) == "content" :> Chars(value)

DescriptionMetas ==
  {<<>>,
   <<MetaEl("property", "og:description", Content("OpenGraph description"))>>,
   <<MetaEl("name", "description", Content("This is a test page description"))>>,
   <<MetaEl("name", "description", Content("This is a test page description")),
     MetaEl("property", "og:description", Content("OpenGraph description"))>>,
   <<MetaEl("name", "description", Content("This is a test page description")),
     MetaEl("property", "og:description", Content(""))>>,
   <<MetaEl("name", "description", Content("This is a test page description")),
     MetaEl("property", "og:description", NoAttrs)>>,
   <<MetaEl("name", "description", Content(""))>>}
OtherMetas ==
  {<<>>,
   <<MetaEl("property", "article:author", Content("Jane Roe")),
     MetaEl("name", "author", Content("John Doe")),
     MetaEl("name", "publish_date", Content("2024-01-02")),
     MetaEl("property", "article:published_time", Content("2024-01-01T00:00:00Z"))>>,
   <<MetaEl("property", "article:author", Content("Jane Roe")),
     MetaEl("name", "publish_date", Content("2024-01-02"))>>}
Heads ==
  {El("head", NoAttrs, <<>>, d \o o) : d \in DescriptionMetas, o \in OtherMetas}
DocumentTitles ==
  {Absent, Attr(<<>>), Attr(<<" ", NL>>), Attr(Chars(" Test Page Title "))}

Document(title, head, body) ==
  [title |-> title, url |-> Chars("https://example.com/test"),
   root |-> El("html", NoAttrs, <<>>, <<head, body>>)]

TestHead ==
  El("head", NoAttrs, <<>>,
     <<MetaEl("name", "description", Content("This is a test page description"))>>)
TestBody ==
  Body(<<El("article", NoAttrs, <<"a">>, <<El("script", NoAttrs, <<"s">>, <<>>)>>)>>)

\* The documents: every body under one head, every head and title over one
\* body.
Documents ==
  {Document(Attr(Chars("Test Page Title")), TestHead, body) : body \in Bodies}
    \cup {Document(title, head, TestBody) : title \in DocumentTitles, head \in Heads}

BlankDocument == Document(Absent, El("head", NoAttrs, <<>>, <<>>), Body(<<>>))

MarkdownAlphabet == {"#", " ", NL, "a"}
MarkdownStrings == StringsUpTo(MarkdownAlphabet, MaxLen)

\* Cell texts: white space around, a pipe inside and at the end, a pipe
\* after a backslash; white space only; a line break inside (a pre in a td).
CellTexts == {Chars(" \\|a| "), Chars(" "), <<"c", NL, "d">>}
TableRowInputs == StringsUpTo(CellTexts, MaxCells)
Tables == StringsUpTo(TableRowInputs, MaxRows)

ContentAlphabet == {" ", NL, "a", "b"}
Contents == StringsUpTo(ContentAlphabet, MaxContent)

ClassAttrs ==
  {Absent, Attr(<<>>), Attr(Chars("language-javascript")),
   Attr(Chars("hljs language-c++ x")), Attr(Chars("language-")),
   Attr(Chars("lang-js"))}
CodeTexts == {<<>>, Chars("const x = 5;"), <<"#", " ", "a", NL, NL, NL, "b", " ">>}
ChildNodes ==
  [nodeName : {"CODE"}, class : ClassAttrs, textContent : CodeTexts]
    \cup [nodeName : {"#text", "SPAN"}, class : {Absent}, textContent : {<<NL>>}]
FenceNodes ==
  [nodeName : {"PRE", "DIV"}, childNodes : StringsUpTo(ChildNodes, MaxChildren)]

\* The src values are absolute URLs, which img.src returns as they are.
Images ==
  [alt : {Absent, Attr(<<>>), Attr(Chars("Test Image"))},
   src : {Absent, Attr(Chars("https://example.com/image.jpg"))},
   title : {Absent, Attr(<<>>), Attr(Chars("Image Title"))}]

DocNodes ==
  {[nodeName |-> "H1", text |-> <<"A">>],
   [nodeName |-> "H2", text |-> Chars("B C")],
   [nodeName |-> "H3", text |-> <<"A">>],
   [nodeName |-> "P", text |-> <<"A">>],
   [nodeName |-> "#text", text |-> <<" ">>],
   [nodeName |-> "#text", text |-> <<NL, " ", "\t">>]}
\* The parser never leaves two text nodes side by side.
Docs ==
  {d \in StringsUpTo(DocNodes, MaxDoc) :
     \A i \in 1..(Len(d) - 1) : ~(IsText(d[i]) /\ IsText(d[i + 1]))}

ConversionOptions ==
  [includeMetadata : {"undefined", "false", "true"},
   baseUrl : {Absent, Attr(<<>>), Attr(Chars("https://example.com"))}]

Titles == {<<>>, Chars("Test Page")}
Urls == {Chars("https://example.com/page")}
ISOStamps == {Chars("2025-09-09T16:14:00.000Z"), Chars("2025-09-09T16:14:00.001Z")}

\* Strings by their sizes: up to two runs of one kind of character each, a
\* character of one to three bytes being one UTF-16 code unit and one of
\* four bytes two.  The counts reach the default threshold in bytes with
\* fewer characters than it.
CharacterKinds ==
  {[bytes |-> 1, units |-> 1], [bytes |-> 2, units |-> 1],
   [bytes |-> 3, units |-> 1], [bytes |-> 4, units |-> 2]}
Runs ==
  {[bytes |-> k.bytes, units |-> k.units, count |-> c] :
     k \in CharacterKinds,
     c \in {1, 2, 3, 262144, 349525, 524288, 1048575, 1048576, 1048577}}
SizedStrings == StringsUpTo(Runs, 2)
\* The threshold argument: left out, or given.
Thresholds == {NoNumber, Attr(0), Attr(3), Attr(4), Attr(1048576), Attr(2097152)}

\* Titles for file names: none, empty, with invalid characters, white space
\* and separators, of separators only, and longer than MaxNameLength with
\* an a, a space or a colon at the cut.
FilenameTitles ==
  {Absent, Attr(<<>>)}
    \cup {Attr(Chars(t)) :
            t \in {"My Great Article: A Story!", "???", " a\t b ", "-_x_-",
                   "a<b>c:d\"e/f\\g|h?i*j", "a - b", "x"}}
    \cup {Attr(repeat("a", n) \o Chars(t)) :
            n \in {MaxNameLength - 1, MaxNameLength, 2 * MaxNameLength},
            t \in {"", " b", ":", "a b"}}

Calls ==
  ({"cleanupMarkdown"} \X MarkdownStrings)
    \cup ({"table"} \X Tables)
    \cup ({"strong", "emphasis"} \X Contents)
    \cup ({"fencedCodeBlock"} \X FenceNodes)
    \cup ({"image"} \X Images)
    \cup ({"convert"} \X [html : Docs, options : ConversionOptions])
    \cup ({"convertWithMetadata"} \X [html : Docs, title : Titles, url : Urls])
    \cup ({"checkContentSize"} \X [html : SizedStrings, threshold : Thresholds])
    \cup ({"generateFilename"} \X
            [title : FilenameTitles, extension : {Absent, Attr(Chars("txt"))},
             now : ISOStamps])

(***************************************************************************)
(* One call: Init draws the operation and its input, the action of the     *)
(* operation applies it.                                                   *)
(***************************************************************************)
\* The converter instances: the exported singleton (converter.ts:207) and
\* one made by new MarkdownConverter().
Instances == {"converter", "fresh"}

\* Every instance as its constructor leaves it.
Constructed == [i \in Instances |-> ConstructorOptions]

Init ==
  /\ pc = "call"
  /\ ret = <<>>
  /\ \E c \in Calls : op = c[1] /\ arg = c[2]
  /\ turndownOptions = Constructed
  /\ log = <<>>
  /\ document = BlankDocument
  /\ browser = NoBrowser

Return(value) ==
  /\ pc = "call"
  /\ pc' = "return"
  /\ ret' = value
  /\ UNCHANGED <<op, arg, turndownOptions, log, document, browser>>

CleanupMarkdown == op = "cleanupMarkdown" /\ Return(cleanupMarkdown(arg))

TableRule == op = "table" /\ Return(tableReplacement(arg))

StrongRule == op = "strong" /\ Return(strongReplacement(arg))

EmphasisRule == op = "emphasis" /\ Return(emphasisReplacement(arg))

\* turndown calls the replacement of a rule only for a node its filter takes.
FencedCodeBlockRule ==
  /\ op = "fencedCodeBlock"
  /\ Return([applies |-> fencedCodeBlockFilter(arg),
             raised |-> fencedCodeBlockFilter(arg) /\ fencedCodeBlockRaises(arg),
             markdown |-> IF /\ fencedCodeBlockFilter(arg)
                             /\ ~fencedCodeBlockRaises(arg)
                          THEN fencedCodeBlockReplacement(arg) ELSE <<>>])

ImageRule == op = "image" /\ Return(imageReplacement(arg))

Convert ==
  /\ op = "convert"
  /\ \E now \in ISOStamps : Return(convert(arg.html, arg.options, now))

ConvertWithMetadata ==
  /\ op = "convertWithMetadata"
  /\ \E now \in ISOStamps :
       Return(convertWithMetadata(arg.html, arg.title, arg.url, now))

GenerateFilename ==
  op = "generateFilename" /\ Return(generateFilename(arg.title, arg.extension, arg.now))

CheckContentSize ==
  op = "checkContentSize" /\ Return(checkContentSize(arg.html, arg.threshold))

Next ==
  \/ CheckContentSize
  \/ CleanupMarkdown
  \/ TableRule
  \/ StrongRule
  \/ EmphasisRule
  \/ FencedCodeBlockRule
  \/ ImageRule
  \/ Convert
  \/ ConvertWithMetadata
  \/ GenerateFilename

Spec == Init /\ [][Next]_vars

(***************************************************************************)
(* A session on the converter instances: up to MaxCalls calls of convert,  *)
(* convertWithMetadata and setOption, on either instance, in any order.    *)
(* log keeps every call with its input and what it returned.               *)
(***************************************************************************)
SessionDocs ==
  {<<[nodeName |-> "H1", text |-> <<"A">>]>>,
   <<[nodeName |-> "P", text |-> <<"A">>]>>}
SessionOptions ==
  {[includeMetadata |-> "undefined", baseUrl |-> Absent],
   [includeMetadata |-> "true", baseUrl |-> Attr(Chars("https://example.com"))]}
OptionSettings ==
  {<<"headingStyle", "setext">>, <<"headingStyle", "atx">>, <<"hr", "***">>}

InitConverter ==
  /\ pc = "session"
  /\ op = "new"
  /\ arg = <<>>
  /\ ret = <<>>
  /\ turndownOptions = Constructed
  /\ log = <<>>
  /\ document = BlankDocument
  /\ browser = NoBrowser

Called(name, instance, input, now, value) ==
  /\ Len(log) < MaxCalls
  /\ op' = name
  /\ arg' = input
  /\ ret' = value
  /\ log' = Append(log, [op |-> name, instance |-> instance, input |-> input,
                         now |-> now, ret |-> value])
  /\ UNCHANGED <<pc, document, browser>>

SessionConvert ==
  \E i \in Instances, html \in SessionDocs, opts \in SessionOptions,
     now \in ISOStamps :
    /\ Called("convert", i, [html |-> html, options |-> opts], now,
              convertWith(turndownOptions[i], html, opts, now))
    /\ UNCHANGED turndownOptions

SessionConvertWithMetadata ==
  \E i \in Instances, html \in SessionDocs, title \in {Chars("Test Page")},
     url \in Urls,
     now \in ISOStamps :
    /\ Called("convertWithMetadata", i,
              [html |-> html, title |-> title, url |-> url], now,
              convertWithMetadataWith(turndownOptions[i], html, title, url, now))
    /\ UNCHANGED turndownOptions

SessionSetOption ==
  \E i \in Instances, kv \in OptionSettings :
    /\ Called("setOption", i, [key |-> kv[1], value |-> kv[2]], <<>>, <<>>)
    /\ turndownOptions' = setOption(turndownOptions, i, kv[1], kv[2])

NextConverter ==
  \/ SessionConvert
  \/ SessionConvertWithMetadata
  \/ SessionSetOption

SpecConverter == InitConverter /\ [][NextConverter]_vars

(***************************************************************************)
(* The extractor on a live document.  Init draws the document and an       *)
(* operation of DOMExtractor is called on it (SpecExtractor, every         *)
(* document), or up to MaxCalls operations are, in any order (SpecLive, a  *)
(* few documents).  op, arg and ret hold the last call and what it         *)
(* returned, log the names of the operations called.                       *)
(***************************************************************************)
QuerySelectors == {{Tag("article")}, {Class("content")}, {Tag("script")}, {Id("none")}}

Range(ancestor, inText, text, from, to) ==
  [ancestor |-> ancestor, inText |-> inText, text |-> text, from |-> from,
   to |-> to]

\* The ranges in the element at a path: all its child elements without and
\* with its text, a collapsed range between its children, and, if it has a
\* text node, that text alone and a collapsed range inside it.
RangesIn(doc, path) ==
  LET el == NodeAt(doc.root, path)
      n == Len(el.children)
  IN {Range(path, FALSE, <<>>, 1, n), Range(path, FALSE, el.text, 1, n),
      Range(path, FALSE, <<>>, 1, 0)}
       \cup (IF el.text = <<>> THEN {}
             ELSE {Range(path, TRUE, el.text, 1, 0), Range(path, TRUE, <<>>, 1, 0)})

\* What window.getSelection() can give on the document: no selection, one
\* without ranges, one range in the body or in its first child, or two.
Selections(doc) ==
  LET inBody == RangesIn(doc, BodyPath)
      inChild == IF NodeAt(doc.root, BodyPath).children = <<>> THEN {}
                 ELSE RangesIn(doc, BodyPath \o <<1>>)
  IN {NoSelection, SelectionOf(<<>>)}
       \cup {SelectionOf(<<r>>) : r \in inBody \cup inChild}
       \cup {SelectionOf(<<Range(BodyPath, FALSE, <<>>, 1, 0), r>>) : r \in inBody}

InitExtractor ==
  /\ pc = "call"
  /\ op = "load"
  /\ arg = <<>>
  /\ ret = <<>>
  /\ turndownOptions = Constructed
  /\ log = <<>>
  /\ document \in Documents
  /\ browser = NoBrowser

Extracted(name, input, outcome) ==
  /\ Len(log) < (IF pc = "call" THEN 1 ELSE MaxCalls)
  /\ log' = Append(log, name)
  /\ op' = name
  /\ arg' = input
  /\ ret' = outcome.result
  /\ document' = outcome.document
  /\ UNCHANGED <<pc, turndownOptions, browser>>

ExtractFullPage == Extracted("extractFullPage", <<>>, extractFullPage(document))

ExtractSelection ==
  \E selection \in Selections(document) :
    Extracted("extractSelection", selection, extractSelection(document, selection))

ExtractPageMetadata ==
  Extracted("extractPageMetadata", <<>>,
            [document |-> document, result |-> extractPageMetadata(document)])

ExtractFromSelector ==
  \E selector \in QuerySelectors :
    Extracted("extractFromSelector", selector,
              extractFromSelector(document, selector))

\* sanitizeHtml on the HTML of the body.
SanitizeHtml ==
  Extracted("sanitizeHtml", innerHTML(NodeAt(document.root, BodyPath)),
            sanitizeHtml(document, innerHTML(NodeAt(document.root, BodyPath))))

NextExtractor ==
  \/ ExtractFullPage
  \/ ExtractSelection
  \/ ExtractPageMetadata
  \/ ExtractFromSelector
  \/ SanitizeHtml

SpecExtractor == InitExtractor /\ [][NextExtractor]_vars

\* Documents with noise beside and inside their content.
LiveShapes ==
  {Shape("script", NoAttrs, <<"s">>),
   Shape("article", "data-x" :> <<"1">>, <<"a">>),
   Shape("div", "class" :> Chars("ads"), <<"n">>)}
LiveDocuments ==
  {Document(Attr(Chars("Test Page Title")), TestHead, Body(f)) :
     f \in ForestsOfSize(LiveShapes, 2)}

InitLive ==
  /\ pc = "session"
  /\ op = "load"
  /\ arg = <<>>
  /\ ret = <<>>
  /\ turndownOptions = Constructed
  /\ log = <<>>
  /\ document \in LiveDocuments
  /\ browser = NoBrowser

SpecLive == InitLive /\ [][NextExtractor]_vars

(***************************************************************************)
(* One writeToClipboard call of the exported clipboard, step by step: the  *)
(* try block up to its first await (one of three routes), then, if what it *)
(* awaited failed, the catch block.  log holds the browser calls made and  *)
(* how each ended; the error caught is the one of the last call.           *)
(***************************************************************************)
ClipboardContents ==
  {<<>>}
    \cup {<<[bytes |-> k.bytes, units |-> k.units, count |-> c]>> :
            k \in {[bytes |-> 1, units |-> 1], [bytes |-> 3, units |-> 1],
                   [bytes |-> 4, units |-> 2]},
            c \in {1, 3, 20, 60, 20000, 50000, 50001, 60000, 1048576, 1048577}}
    \cup {<<[bytes |-> 1, units |-> 1, count |-> 30],
            [bytes |-> 4, units |-> 2, count |-> 40]>>}

\* No options, no metadata, no error.
NoOptions ==
  [present |-> FALSE,
   value |-> [maxSize |-> NoNumber, truncateAt |-> NoNumber,
              useDownloadFallback |-> NoFlag]]
NoMetadata ==
  [present |-> FALSE, value |-> [title |-> <<>>, url |-> <<>>, timestamp |-> <<>>]]
NoError == [present |-> FALSE, value |-> [isError |-> FALSE, message |-> <<>>]]

ClipboardOptionsGiven ==
  {NoOptions}
    \cup {Attr(o) :
            o \in [maxSize : {NoNumber, Attr(10), Attr(1000000)},
                   truncateAt : {NoNumber, Attr(40), Attr(60), Attr(50000)},
                   useDownloadFallback : {NoFlag, Attr(FALSE)}]}

ClipboardMetadatas ==
  {NoMetadata,
   Attr([title |-> <<>>, url |-> Chars("https://example.com"),
         timestamp |-> Chars("2024-01-01T00:00:00Z")]),
   Attr([title |-> Chars("Test Page"), url |-> Chars("https://example.com"),
         timestamp |-> Chars("2024-01-01T00:00:00Z")])}

\* What navigator.clipboard.writeText or the execCommand fallback can throw,
\* and the error chrome.downloads reports.
ClipboardFailures == {Error("Clipboard access denied"), Thrown("denied")}
DownloadFailures == {Error("Download failed")}

InitClipboard ==
  /\ pc = "try"
  /\ op = "writeToClipboard"
  /\ arg \in [content : ClipboardContents, metadata : ClipboardMetadatas,
              options : ClipboardOptionsGiven, now : {Chars("2025-09-09T16:14:00.000Z")}]
  /\ ret = <<>>
  /\ turndownOptions = Constructed
  /\ log = <<>>
  /\ document = BlankDocument
  /\ browser = NoBrowser

config == Configured(DEFAULT_OPTIONS, arg.options)
originalSize == calculateSize(Whole(arg.content))

\* A browser call and how it ended.
BrowserCall(api, content, filename, error) ==
  [api |-> api, content |-> content, filename |-> filename, error |-> error]

\* await of a browser call: the function resolves with result if the call
\* succeeds and goes to its catch block if it fails.
Await(call, result) ==
  /\ log' = Append(log, call)
  /\ IF call.error.present
     THEN pc' = "catch" /\ ret' = ret
     ELSE pc' = "resolved" /\ ret' = result
  /\ UNCHANGED <<op, arg, turndownOptions, document, browser>>

\* clipboard.ts:55-66
DownloadRoute ==
  /\ pc = "try"
  /\ route(originalSize, config) = "download"
  /\ LET title == IF arg.metadata.present /\ arg.metadata.value.title # <<>>
                  THEN arg.metadata.value.title ELSE Chars("content")
         filename == generateFilename(Attr(title), Absent, arg.now)
     IN \E error \in {NoError} \cup {Attr(downloadError(e)) : e \in DownloadFailures} :
          Await(BrowserCall("download", Whole(arg.content), Attr(filename), error),
                ClipboardResult(TRUE, "download", Attr(filename), originalSize,
                                Attr(originalSize), Absent))

\* clipboard.ts:69-78
ClipboardRoute ==
  /\ pc = "try"
  /\ route(originalSize, config) = "clipboard"
  /\ \E error \in {NoError} \cup {Attr(e) : e \in ClipboardFailures} :
       Await(BrowserCall("writeText", Whole(arg.content), Absent, error),
             ClipboardResult(TRUE, "clipboard", Absent, originalSize,
                             Attr(originalSize), Absent))

\* clipboard.ts:80-88
TruncatedRoute ==
  /\ pc = "try"
  /\ route(originalSize, config) = "truncated"
  /\ LET truncatedContent == truncateContent(arg.content, config.truncateAt)
     IN \E error \in {NoError} \cup {Attr(e) : e \in ClipboardFailures} :
          Await(BrowserCall("writeText", truncatedContent, Absent, error),
                ClipboardResult(TRUE, "truncated", Absent, originalSize,
                                Attr(calculateSize(truncatedContent)), Absent))

\* The error the catch block has caught.
caught == log[Len(log)].error.value

\* clipboard.ts:93-113
FallbackDownload ==
  /\ pc = "catch"
  /\ fallbackAllowed(config, arg.metadata)
  /\ LET filename == generateFilename(Attr(arg.metadata.value.title), Absent, arg.now)
     IN \E error \in {NoError} \cup {Attr(downloadError(e)) : e \in DownloadFailures} :
          /\ log' = Append(log, BrowserCall("download", Whole(arg.content),
                                            Attr(filename), error))
          /\ ret' = IF error.present
                    THEN ClipboardResult(FALSE, "clipboard", Absent, originalSize, NoNumber,
                           Attr(Chars("Clipboard and download both failed: ")
                                  \o toString(error.value)))
                    ELSE ClipboardResult(TRUE, "download", Attr(filename), originalSize,
                           Attr(originalSize),
                           Attr(Chars("Clipboard failed, used download fallback")))
  /\ pc' = "resolved"
  /\ UNCHANGED <<op, arg, turndownOptions, document, browser>>

\* clipboard.ts:116-122
ReturnError ==
  /\ pc = "catch"
  /\ ~fallbackAllowed(config, arg.metadata)
  /\ ret' = ClipboardResult(FALSE, "clipboard", Absent, originalSize, NoNumber,
                            Attr(errorMessage(caught)))
  /\ pc' = "resolved"
  /\ UNCHANGED <<op, arg, turndownOptions, log, document, browser>>

NextClipboard ==
  \/ DownloadRoute
  \/ ClipboardRoute
  \/ TruncatedRoute
  \/ FallbackDownload
  \/ ReturnError

SpecClipboard == InitClipboard /\ [][NextClipboard]_vars

(***************************************************************************)
(* One request to copy the full page, from the toolbar icon, the context   *)
(* menu or the popup, through the content script (Content.tsx:128-193) and *)
(* back to the background worker (background/index.ts:154-258) or the      *)
(* popup.  The page is given by its extracted html and the Markdown the    *)
(* converter makes of it, both by their sizes.  ret holds the response of  *)
(* the content script, log what the user gets: clipboard writes, downloads *)
(* and reports.                                                            *)
(***************************************************************************)
CONTENT_SIZE_THRESHOLD == 1048576
CopyThreshold == 50000

Triggers == {"toolbar", "context-menu", "popup"}

OneByte(n) == <<[bytes |-> 1, units |-> 1, count |-> n]>>
ThreeBytes(n) == <<[bytes |-> 3, units |-> 1, count |-> n]>>

\* Extracted html up to, and over, 1 MB; Markdown up to, and over, 50 KB.
CopyPages ==
  [html : {OneByte(n) : n \in {3, 1048576, 1048577, 2000000}}
            \cup {ThreeBytes(n) : n \in {349525, 349526}},
   markdown : {OneByte(n) : n \in {3, 50000, 50001, 1100000}}
                \cup {ThreeBytes(n) : n \in {16666, 20000}},
   title : {Chars("Test Page")}]

InitCopy ==
  /\ pc = "request"
  /\ op = "get-full-page"
  /\ arg \in [trigger : Triggers, page : CopyPages]
  /\ ret = <<>>
  /\ turndownOptions = Constructed
  /\ log = <<>>
  /\ document = BlankDocument
  /\ browser = NoBrowser

\* A response of the content script.
MessageResponse(success, markdown, error) ==
  [success |-> success, markdown |-> markdown, error |-> error]

Step(position, response, delivered) ==
  /\ pc' = position
  /\ ret' = response
  /\ log' = log \o delivered
  /\ UNCHANGED <<op, arg, turndownOptions, document, browser>>

Report(kind) == [api |-> "report", kind |-> kind, content |-> Whole(<<>>)]

\* chrome.tabs.sendMessage(tabId, { action }): the content script takes the
\* message, or there is none in the tab and the promise rejects.
SendMessage ==
  /\ pc = "request"
  /\ \E received \in BOOLEAN :
       Step(IF received THEN "content" ELSE "failed", ret, <<>>)

\* The error of Content.tsx:144-145.
TooLarge ==
  Chars("Page content is too large (>1MB). ")
    \o Chars("Please try selecting specific content instead.")

\* Content.tsx:128-193
HandleFullPageRequest ==
  /\ pc = "content"
  /\ Step("response",
          IF checkContentSize(arg.page.html, Attr(CONTENT_SIZE_THRESHOLD))
          THEN MessageResponse(FALSE, <<>>, TooLarge)
          ELSE MessageResponse(TRUE, arg.page.markdown, <<>>),
          <<>>)

\* response.success && response.markdown: background/index.ts:165-179,
\* part_003:290-327.
HandleResponse ==
  /\ pc = "response"
  /\ IF ret.success /\ ret.markdown # <<>>
     THEN Step("copy", ret, <<>>)
     ELSE Step("done", ret, <<Report("Error")>>)

\* The content copyToClipboard hands to the page, background/index.ts:200-211.
contentToCopy(markdown) ==
  IF sizeInBytes(markdown) > CopyThreshold
  THEN [body |-> substring(markdown, CopyThreshold), notice |-> TRUE]
  ELSE Whole(markdown)

\* copyToClipboard, background/index.ts:194-261: the injected function
\* writes the clipboard or reports that it could not; the metadata of a
\* full page is always there.
CopyToClipboard ==
  /\ pc = "copy"
  /\ \E success \in BOOLEAN :
       IF success
       THEN Step("copied", ret,
                 <<[api |-> "writeText", kind |-> "clipboard",
                    content |-> contentToCopy(ret.markdown)]>>)
       ELSE Step("download", ret, <<>>)

\* offerFileDownload, background/index.ts:321-369: one of its two attempts
\* starts the download, or both fail.
OfferFileDownload ==
  /\ pc = "download"
  /\ \E started \in BOOLEAN :
       IF started
       THEN Step("copied", ret,
                 <<[api |-> "download", kind |-> "file",
                    content |-> Whole(ret.markdown)]>>)
       ELSE Step("failed", ret, <<>>)

\* background/index.ts:170-173, part_003:309-319
ReportSuccess == pc = "copied" /\ Step("done", ret, <<Report("Success")>>)

\* background/index.ts:181-188, part_003:328-348
ReportFailure == pc = "failed" /\ Step("done", ret, <<Report("Error")>>)

NextCopy ==
  \/ SendMessage
  \/ HandleFullPageRequest
  \/ HandleResponse
  \/ CopyToClipboard
  \/ OfferFileDownload
  \/ ReportSuccess
  \/ ReportFailure

\* Every step is the continuation of a promise or a message handler, which
\* the browser runs once it can.
SpecCopy == InitCopy /\ [][NextCopy]_vars /\ WF_vars(NextCopy)

(***************************************************************************)
(* NotificationsUtil, src/src/utils/notifications.ts: show calls on the    *)
(* exported notifications object, one after the other, each step by step   *)
(* (availability check, Chrome notification, DOM notification), with the   *)
(* timers it sets firing at any later time and clear(id) called between    *)
(* calls.  browser holds the Chrome notifications on screen, the DOM       *)
(* notifications in the page, the pending timers and the number of         *)
(* notification ids made (an id is made of the time and a random string:   *)
(* each is new); log holds the browser calls of the show call in progress  *)
(* or last made, and the timers fired and clear calls since.               *)
(***************************************************************************)
MaxShows == 2
AutoDismissDelay == 3000
FallbackDuration == 5000

\* options.requireInteraction as a condition.
requiresInteraction(options) ==
  options.requireInteraction.present /\ options.requireInteraction.value

\* { ...defaults, ...options }: what the caller gives wins.
Given(default, given) == IF given.present THEN given ELSE default

\* showSuccess, notifications.ts:60-75, and showError, 80-96.
successOptions(given) ==
  [type |-> "basic", priority |-> 1, requireInteraction |-> Given(NoFlag, given)]
errorOptions(given) ==
  [type |-> "basic", priority |-> 2,
   requireInteraction |-> Given(Attr(TRUE), given)]

\* A variant of withoutTimeout that leaves the entry in the map.
withTimeoutKept(timeouts, id) == timeouts

\* this.notificationTimeouts.delete(id), notifications.ts:218 and 466.
withoutTimeout(timeouts, id) == timeouts \ {id}

\* A variant of autoDismiss: a timer for every notification.
autoDismissAlways(finalOptions) == TRUE

\* !finalOptions.requireInteraction, notifications.ts:215.
autoDismiss(finalOptions) == ~requiresInteraction(finalOptions)

\* mapNotificationType, notifications.ts:408-418.
mapNotificationType(options) ==
  IF options.priority >= 2 THEN "error"
  ELSE IF options.type = "progress" THEN "info"
  ELSE "success"

NotificationResult(success, method, id, error) ==
  [success |-> success, method |-> method, notificationId |-> id, error |-> error]

NewId == browser.ids + 1

ApiCall(api, outcome) == [api |-> api, outcome |-> outcome]

\* One of showSuccess and showError is called, with or without a
\* requireInteraction of the caller's.
Show ==
  /\ pc = "idle"
  /\ browser.ids < MaxShows
  /\ \E name \in {"showSuccess", "showError"},
        given \in {NoFlag, Attr(TRUE), Attr(FALSE)} :
       /\ op' = name
       /\ arg' = IF name = "showSuccess" THEN successOptions(given)
                 ELSE errorOptions(given)
  /\ pc' = "available"
  /\ log' = <<>>
  /\ browser' = [browser EXCEPT !.ids = NewId]
  /\ UNCHANGED <<ret, turndownOptions, document>>

\* isChromeNotificationsAvailable, notifications.ts:423-438: there is no
\* chrome.notifications, or chrome.permissions.contains tells.
IsChromeNotificationsAvailable ==
  /\ pc = "available"
  /\ \E outcome \in {"no chrome.notifications", "not permitted", "permitted"} :
       /\ log' = Append(log, ApiCall("permissions.contains", outcome))
       /\ pc' = IF outcome = "permitted" THEN "chrome" ELSE "dom"
  /\ UNCHANGED <<op, arg, ret, turndownOptions, document, browser>>

\* showChromeNotification, notifications.ts:183-234: the notification is
\* created, or the callback finds chrome.runtime.lastError, or
\* chrome.notifications.create throws.
ShowChromeNotification ==
  /\ pc = "chrome"
  /\ \E outcome \in {"created", "lastError", "throws"} :
       /\ log' = Append(log, ApiCall("notifications.create", outcome))
       /\ pc' = IF outcome = "throws" THEN "catch" ELSE "idle"
       /\ ret' = IF outcome = "created"
                 THEN NotificationResult(TRUE, "chrome-api", browser.ids, <<>>)
                 ELSE IF outcome = "lastError"
                 THEN NotificationResult(FALSE, "chrome-api", 0,
                                         Chars("Permission denied"))
                 ELSE ret
       /\ browser' =
            IF outcome # "created" THEN browser
            ELSE [browser EXCEPT
                    !.notifications =
                       @ \cup {[id |-> browser.ids,
                                requireInteraction |-> requiresInteraction(arg)]},
                    !.timers =
                       @ \cup (IF autoDismiss(arg)
                               THEN {[id |-> browser.ids, of |-> "chrome",
                                      delay |-> AutoDismissDelay]}
                               ELSE {}),
                    !.timeouts =
                       @ \cup (IF autoDismiss(arg) THEN {browser.ids} ELSE {})]
  /\ UNCHANGED <<op, arg, turndownOptions, document>>

\* showDOMNotification, notifications.ts:239-284: the notification is put
\* into the page with its dismiss timer, or making it throws, which the
\* function catches.
showDOMNotification(type, duration) ==
  /\ \E outcome \in {"shown", "throws"} :
       /\ log' = Append(log, ApiCall("document.createElement", outcome))
       /\ ret' = IF outcome = "shown"
                 THEN NotificationResult(TRUE, "dom-fallback", browser.ids, <<>>)
                 ELSE NotificationResult(FALSE, "dom-fallback", 0,
                                         Chars("DOM creation failed"))
       /\ browser' =
            IF outcome # "shown" THEN browser
            ELSE [browser EXCEPT
                    !.dom = @ \cup {[id |-> browser.ids, type |-> type]},
                    !.timers =
                       @ \cup (IF duration > 0
                               THEN {[id |-> browser.ids, of |-> "dom",
                                      delay |-> duration]}
                               ELSE {})]
  /\ pc' = "idle"
  /\ UNCHANGED <<op, arg, turndownOptions, document>>

\* notifications.ts:150-155
ShowDOMNotification ==
  /\ pc = "dom"
  /\ showDOMNotification(mapNotificationType(arg),
                         IF requiresInteraction(arg) THEN 0 ELSE AutoDismissDelay)

\* notifications.ts:156-170
ShowDOMFallback ==
  /\ pc = "catch"
  /\ showDOMNotification("error", FallbackDuration)

\* A timer fires: notifications.ts:216-219 for a Chrome notification,
\* 264-266 for a DOM notification.
Timeout ==
  \E timer \in browser.timers :
    /\ browser' =
         [browser EXCEPT
            !.timers = @ \ {timer},
            !.notifications =
               IF timer.of = "chrome" THEN {n \in @ : n.id # timer.id} ELSE @,
            !.timeouts =
               IF timer.of = "chrome" THEN withoutTimeout(@, timer.id) ELSE @,
            !.dom = IF timer.of = "dom" THEN {n \in @ : n.id # timer.id} ELSE @]
    /\ log' = Append(log, ApiCall("timeout", timer.of))
    /\ UNCHANGED <<op, arg, ret, pc, turndownOptions, document>>

\* clear(notificationId) of a Chrome notification on screen,
\* notifications.ts:457-472.
Clear ==
  /\ pc = "idle"
  /\ \E n \in browser.notifications :
       /\ browser' =
            [browser EXCEPT
               !.notifications = @ \ {n},
               !.timers = {t \in @ : ~(t.of = "chrome" /\ t.id = n.id)},
               !.timeouts = withoutTimeout(@, n.id)]
       /\ op' = "clear"
       /\ arg' = [notificationId |-> n.id]
       /\ ret' = [wasCleared |-> TRUE]
       /\ log' = Append(log, ApiCall("notifications.clear", "cleared"))
  /\ UNCHANGED <<pc, turndownOptions, document>>

InitNotifications ==
  /\ pc = "idle"
  /\ op = "load"
  /\ arg = <<>>
  /\ ret = <<>>
  /\ turndownOptions = Constructed
  /\ log = <<>>
  /\ document = BlankDocument
  /\ browser = NoBrowser

NextNotifications ==
  \/ Show
  \/ IsChromeNotificationsAvailable
  \/ ShowChromeNotification
  \/ ShowDOMNotification
  \/ ShowDOMFallback
  \/ Timeout
  \/ Clear

SpecNotifications == InitNotifications /\ [][NextNotifications]_vars

(***************************************************************************)
(* The same with clear(id) in its two steps, the call and its callback,    *)
(* and clearAll, at any time, while a show call is in progress too.        *)
(* browser.timeouts is notificationTimeouts by its keys, browser.callbacks *)
(* the callbacks of chrome.notifications calls that have not run yet.      *)
(***************************************************************************)
Callback(api, id) == [api |-> api, id |-> id]

\* clear(notificationId) of a Chrome notification, notifications.ts:457-459:
\* the browser is asked to clear it.
ClearNotification ==
  /\ \E id \in {n.id : n \in browser.notifications} \cup browser.timeouts :
       /\ Callback("clear", id) \notin browser.callbacks
       /\ browser' = [browser EXCEPT
                        !.notifications = {n \in @ : n.id # id},
                        !.callbacks = @ \cup {Callback("clear", id)}]
  /\ log' = Append(log, ApiCall("notifications.clear", "called"))
  /\ UNCHANGED <<op, arg, ret, pc, turndownOptions, document>>

\* The callback of that call, notifications.ts:460-467: the timer of the
\* notification, if the map has one, is cancelled and its entry deleted.
Cleared ==
  /\ \E callback \in browser.callbacks :
       /\ callback.api = "clear"
       /\ browser' = [browser EXCEPT
                        !.callbacks = @ \ {callback},
                        !.timers =
                           {t \in @ : ~(/\ t.of = "chrome"
                                        /\ t.id = callback.id
                                        /\ callback.id \in browser.timeouts)},
                        !.timeouts = withoutTimeout(@, callback.id)]
  /\ log' = Append(log, ApiCall("notifications.clear", "cleared"))
  /\ UNCHANGED <<op, arg, ret, pc, turndownOptions, document>>

\* clearAll, notifications.ts:477-504: getAll is called, the DOM
\* notifications are dismissed, and every timer in the map is cancelled and
\* the map emptied.
ClearAll ==
  /\ Callback("getAll", 0) \notin browser.callbacks
  /\ browser.notifications \cup browser.dom # {} \/ browser.timeouts # {}
  /\ browser' = [browser EXCEPT
                   !.callbacks = @ \cup {Callback("getAll", 0)},
                   !.dom = {},
                   !.timers = {t \in @ : ~(t.of = "chrome"
                                           /\ t.id \in browser.timeouts)},
                   !.timeouts = {}]
  /\ log' = Append(log, ApiCall("clearAll", "called"))
  /\ UNCHANGED <<op, arg, ret, pc, turndownOptions, document>>

\* The callback of getAll, notifications.ts:481-487: every notification of
\* the extension is cleared.
GotAll ==
  /\ Callback("getAll", 0) \in browser.callbacks
  /\ browser' = [browser EXCEPT !.callbacks = @ \ {Callback("getAll", 0)},
                                !.notifications = {}]
  /\ log' = Append(log, ApiCall("notifications.getAll", "cleared"))
  /\ UNCHANGED <<op, arg, ret, pc, turndownOptions, document>>

NextTimeouts ==
  \/ Show
  \/ IsChromeNotificationsAvailable
  \/ ShowChromeNotification
  \/ ShowDOMNotification
  \/ ShowDOMFallback
  \/ Timeout
  \/ ClearNotification
  \/ Cleared
  \/ ClearAll
  \/ GotAll

SpecTimeouts == InitNotifications /\ [][NextTimeouts]_vars

(***************************************************************************)
(* The content script, src/src/content/Content.tsx, in one page: the       *)
(* runtime.onMessage listener takes up to MaxRequests requests, and the    *)
(* selection listeners that initContentScript registers run on the events  *)
(* of the page while the user changes the selection.  No handler awaits,   *)
(* so each runs to its end before the next event is taken.  browser holds  *)
(* the page, its selection, lastSelectionState and the number of requests  *)
(* taken; log holds the sendResponse and sendMessage calls made.           *)
(***************************************************************************)
MaxRequests == 1
MaxEvents == 2

\* What window.getSelection() gives: null, or a selection with its range
\* count, its text, and the html of its first range and the Markdown the
\* converter makes of it, both by their sizes.
PageSelection(exists, rangeCount, text, html) ==
  [exists |-> exists, rangeCount |-> rangeCount, text |-> text, html |-> html,
   markdown |-> OneByte(stringLength(html))]

\* None, one without a range, a collapsed one, white space, text, text in
\* more than 1 MB of html.
PageSelections ==
  {PageSelection(FALSE, 0, <<>>, <<>>),
   PageSelection(TRUE, 0, <<>>, <<>>),
   PageSelection(TRUE, 1, <<>>, <<>>),
   PageSelection(TRUE, 1, <<" ", NL>>, OneByte(2)),
   PageSelection(TRUE, 1, Chars("a b"), OneByte(10)),
   PageSelection(TRUE, 1, Chars("a b"), ThreeBytes(349526))}

ContentPages ==
  [html : {OneByte(3), OneByte(1048577), ThreeBytes(349526)},
   markdown : {OneByte(3)},
   title : {Chars("Test Page")}]

\* Where the extractor or the converter throws in a handler, and what.
Throw(at, error) == [at |-> at, error |-> error]
NoThrow == Throw("nowhere", Thrown(""))
Throws ==
  {NoThrow, Throw("extract", Error("Extraction failed")),
   Throw("convert", Thrown("not an Error"))}

\* error instanceof Error ? error.message : fallback
messageOr(error, fallback) ==
  IF error.isError THEN error.message ELSE Chars(fallback)

\* A response handed to sendResponse; the Markdown has the header of
\* convertWithMetadata or of Content.tsx:235-236 before it.
Respond(success, markdown, hasSelection, error) ==
  [success |-> success, markdown |-> markdown, hasSelection |-> hasSelection,
   error |-> error]
NoMarkdown == [header |-> FALSE, body |-> <<>>]

\* selection !== null && selection.toString().trim().length > 0
hasSelection(selection) == selection.exists /\ Len(trim(selection.text)) > 0

\* A variant of handleFullPageRequest without the return of line 147.
handleFullPageRequestWithoutReturn(page, thrown) ==
  (IF checkContentSize(page.html, Attr(CONTENT_SIZE_THRESHOLD))
   THEN <<Respond(FALSE, NoMarkdown, NoFlag, TooLarge)>>
   ELSE <<>>)
    \o <<Respond(TRUE, [header |-> TRUE, body |-> page.markdown], NoFlag, <<>>)>>

\* handleFullPageRequest, Content.tsx:128-191: the responses it sends.
handleFullPageRequest(page, thrown) ==
  IF thrown.at = "extract"
  THEN <<Respond(FALSE, NoMarkdown, NoFlag,
                 messageOr(thrown.error, "Failed to convert page content"))>>
  ELSE IF checkContentSize(page.html, Attr(CONTENT_SIZE_THRESHOLD))
  THEN <<Respond(FALSE, NoMarkdown, NoFlag, TooLarge)>>
  ELSE IF thrown.at = "convert"
  THEN <<Respond(FALSE, NoMarkdown, NoFlag,
                 messageOr(thrown.error, "Failed to convert page content"))>>
  ELSE <<Respond(TRUE, [header |-> TRUE, body |-> page.markdown], NoFlag, <<>>)>>

\* handleSelectionRequest, Content.tsx:196-277; extractSelection gives null
\* without a selection or a range (part_001:48-50).
handleSelectionRequest(selection, thrown) ==
  IF thrown.at = "extract"
  THEN <<Respond(FALSE, NoMarkdown, NoFlag,
                 messageOr(thrown.error, "Failed to convert selected content"))>>
  ELSE IF ~selection.exists \/ selection.rangeCount = 0
  THEN <<Respond(FALSE, NoMarkdown, NoFlag,
                 Chars("No content selected. ")
                   \o Chars("Please select text on the page and try again."))>>
  ELSE IF checkContentSize(selection.html, Attr(CONTENT_SIZE_THRESHOLD))
  THEN <<Respond(FALSE, NoMarkdown, NoFlag,
                 Chars("Selected content is too large (>1MB). ")
                   \o Chars("Please select less content."))>>
  ELSE IF thrown.at = "convert"
  THEN <<Respond(FALSE, NoMarkdown, NoFlag,
                 messageOr(thrown.error, "Failed to convert selected content"))>>
  ELSE <<Respond(TRUE, [header |-> TRUE, body |-> selection.markdown], NoFlag,
                 <<>>)>>

\* handleCheckSelectionRequest, Content.tsx:282-312
handleCheckSelectionRequest(selection, thrown) ==
  IF thrown.at = "extract"
  THEN <<Respond(FALSE, NoMarkdown, Attr(FALSE),
                 messageOr(thrown.error, "Failed to check selection"))>>
  ELSE <<Respond(TRUE, NoMarkdown, Attr(hasSelection(selection)), <<>>)>>

NoRequest == [id |-> 0, action |-> ""]

InitContent ==
  /\ pc = "loading"
  /\ op = "load"
  /\ arg = NoRequest
  /\ ret = [returned |-> FALSE]
  /\ turndownOptions = Constructed
  /\ log = <<>>
  /\ document = BlankDocument
  /\ \E page \in ContentPages, selection \in PageSelections :
       browser = [page |-> page, selection |-> selection,
                  lastSelectionState |-> FALSE, monitoring |-> FALSE,
                  requests |-> 0]

\* One run of the listener, Content.tsx:76-123: the handler of the action
\* sends its responses and the listener returns.  The handlers catch what
\* they throw, the asynchronous ones in their promise, and for a request
\* that is an object the catch block of the listener is not reached.
Listener(action, responses, returned) ==
  /\ browser.requests < MaxRequests
  /\ browser' = [browser EXCEPT !.requests = @ + 1]
  /\ op' = "onMessage"
  /\ arg' = [id |-> browser.requests + 1, action |-> action]
  /\ ret' = [returned |-> returned]
  /\ log' = log \o [i \in 1..Len(responses) |->
                      [api |-> "sendResponse", request |-> browser.requests + 1,
                       response |-> responses[i]]]
  /\ UNCHANGED <<pc, turndownOptions, document>>

GetFullPage ==
  \E thrown \in Throws :
    Listener("get-full-page", handleFullPageRequest(browser.page, thrown), TRUE)

GetSelection ==
  \E thrown \in Throws :
    Listener("get-selection", handleSelectionRequest(browser.selection, thrown), TRUE)

CheckSelection ==
  \E thrown \in Throws \ {Throw("convert", Thrown("not an Error"))} :
    Listener("check-selection",
             handleCheckSelectionRequest(browser.selection, thrown), TRUE)

\* The default case, Content.tsx:100-105.
UnknownAction ==
  \E action \in {"", "get-page"} :
    Listener(action,
             <<Respond(FALSE, NoMarkdown, NoFlag,
                       Chars("Unknown action: ") \o Chars(action))>>,
             FALSE)

\* The user changes the selection.
Select ==
  /\ \E selection \in PageSelections \ {browser.selection} :
       browser' = [browser EXCEPT !.selection = selection]
  /\ UNCHANGED <<op, arg, ret, pc, turndownOptions, log, document>>

SelectionMessages == SelectSeq(log, LAMBDA call : call.api = "sendMessage")

\* A variant of stateChanged: every event is reported.
stateChangedAlways(now, last) == TRUE

\* hasSelection !== lastSelectionState, Content.tsx:325
stateChanged(now, last) == now # last

\* checkAndUpdateSelection, Content.tsx:319-345; a rejection of the promise
\* of sendMessage is ignored and changes nothing here.
checkAndUpdateSelection(event, monitoring) ==
  LET now == hasSelection(browser.selection)
  IN IF stateChanged(now, browser.lastSelectionState)
     THEN /\ Len(SelectionMessages) < MaxEvents
          /\ browser' = [browser EXCEPT !.lastSelectionState = now,
                                        !.monitoring = monitoring]
          /\ log' = Append(log, [api |-> "sendMessage", event |-> event,
                                 hasSelection |-> now])
     ELSE /\ browser' = [browser EXCEPT !.monitoring = monitoring]
          /\ log' = log

\* initContentScript, Content.tsx:350-386: nothing on a restricted page,
\* else the three listeners and the initial check.
InitContentScript ==
  /\ pc = "loading"
  /\ pc' = "listening"
  /\ \E restricted \in BOOLEAN :
       IF restricted THEN UNCHANGED <<browser, log>>
       ELSE checkAndUpdateSelection("init", TRUE)
  /\ UNCHANGED <<op, arg, ret, turndownOptions, document>>

\* A selectionchange, mouseup or keyup event of the document.
SelectionEvent ==
  /\ pc = "listening"
  /\ browser.monitoring
  /\ \E event \in {"selectionchange", "mouseup", "keyup"} :
       checkAndUpdateSelection(event, TRUE)
  /\ UNCHANGED <<op, arg, ret, pc, turndownOptions, document>>

NextContent ==
  \/ InitContentScript
  \/ GetFullPage
  \/ GetSelection
  \/ CheckSelection
  \/ UnknownAction
  \/ Select
  \/ SelectionEvent

SpecContent == InitContent /\ [][NextContent]_vars

(***************************************************************************)
(* The context menus of the background worker,                             *)
(* src/src/background/index.ts:22-82 and 426-431.  updateContextMenus is   *)
(* called on installation and for every selection-changed message, up to   *)
(* MaxEvents of them; it asks the browser to remove all items and goes on  *)
(* when that is done, and the listener does not wait for it.  The browser  *)
(* takes the calls in the order they are made.  browser holds the menu     *)
(* items, the updates in progress, and the number and the last of the      *)
(* messages; log holds the contextMenus calls and how each ended.          *)
(***************************************************************************)
CONTEXT_MENU_IDS ==
  [COPY_PAGE |-> "copy-full-page", COPY_SELECTION |-> "copy-selection",
   DOWNLOAD_PAGE |-> "download-full-page",
   DOWNLOAD_SELECTION |-> "download-selection"]

\* The ids updateContextMenus creates, in its order.
created(selected) ==
  <<CONTEXT_MENU_IDS.COPY_PAGE, CONTEXT_MENU_IDS.DOWNLOAD_PAGE>>
    \o (IF selected
        THEN <<CONTEXT_MENU_IDS.COPY_SELECTION, CONTEXT_MENU_IDS.DOWNLOAD_SELECTION>>
        ELSE <<>>)

MenuCall(api, id, outcome) == [api |-> api, id |-> id, outcome |-> outcome]

InitMenus ==
  /\ pc = "installing"
  /\ op = "load"
  /\ arg = [hasSelection |-> FALSE]
  /\ ret = [success |-> FALSE]
  /\ turndownOptions = Constructed
  /\ log = <<>>
  /\ document = BlankDocument
  /\ browser = [menus |-> {}, updates |-> <<>>, received |-> 0]

\* updateContextMenus up to its await, background/index.ts:35-40.
updateContextMenus(selected) ==
  /\ browser' = [browser EXCEPT
                   !.updates = Append(@, [hasSelection |-> selected,
                                          removed |-> FALSE]),
                   !.received = IF op' = "onInstalled" THEN @ ELSE @ + 1]
  /\ arg' = [hasSelection |-> selected]
  /\ UNCHANGED <<ret, turndownOptions, log, document>>

\* chrome.runtime.onInstalled, background/index.ts:79-82
OnInstalled ==
  /\ pc = "installing"
  /\ pc' = "running"
  /\ op' = "onInstalled"
  /\ updateContextMenus(FALSE)

\* A selection-changed message, background/index.ts:427-431: the update is
\* started, the response sent and the listener returns.
SelectionChanged ==
  /\ browser.received < MaxEvents
  /\ op' = "selection-changed"
  /\ pc' = pc
  /\ \E selected \in BOOLEAN : updateContextMenus(selected)

\* Position of the first update whose removeAll the browser has not run.
Removing ==
  {i \in 1..Len(browser.updates) :
     /\ ~browser.updates[i].removed
     /\ \A j \in 1..(i - 1) : browser.updates[j].removed}

\* The browser runs the next chrome.contextMenus.removeAll.
RemoveAll ==
  /\ \E i \in Removing :
       browser' = [browser EXCEPT !.menus = {}, !.updates[i].removed = TRUE]
  /\ log' = Append(log, MenuCall("removeAll", "", "removed"))
  /\ UNCHANGED <<op, arg, ret, pc, turndownOptions, document>>

RECURSIVE Creates(_, _)
\* The chrome.contextMenus.create calls for a list of ids on a set of items:
\* an id that is there is refused with runtime.lastError.
Creates(ids, menus) ==
  IF ids = <<>> THEN <<>>
  ELSE <<MenuCall("create", Head(ids),
                  IF Head(ids) \in menus THEN "duplicate id" ELSE "created")>>
         \o Creates(Tail(ids), menus \cup {Head(ids)})

\* updateContextMenus after its await, background/index.ts:42-72: the
\* update whose removeAll was run first goes on first.
CreateMenus ==
  /\ browser.updates # <<>>
  /\ Head(browser.updates).removed
  /\ LET ids == created(Head(browser.updates).hasSelection)
     IN /\ browser' = [browser EXCEPT
                         !.menus = @ \cup {ids[i] : i \in 1..Len(ids)},
                         !.updates = Tail(@)]
        /\ log' = log \o Creates(ids, browser.menus)
  /\ UNCHANGED <<op, arg, ret, pc, turndownOptions, document>>

NextMenus ==
  \/ OnInstalled
  \/ SelectionChanged
  \/ RemoveAll
  \/ CreateMenus

\* The browser runs the calls it was given, and the worker the
\* continuations of resolved promises.
SpecMenus ==
  InitMenus /\ [][NextMenus]_vars /\ WF_vars(RemoveAll) /\ WF_vars(CreateMenus)

(***************************************************************************)
(* One download from the popup, src/unnamed/part_003:352-438: handleDownload*)
(* asks the content script for the Markdown of the page or of the          *)
(* selection, hands it to the background worker                            *)
(* (background/index.ts:433-479) and sets the state the popup shows.  ret  *)
(* holds the responses of the content script and of the background worker, *)
(* log the downloads, notifications and states shown.                      *)
(***************************************************************************)
\* No response: what sendMessage resolves with when nothing answers.
Unanswered == [answered |-> FALSE, success |-> FALSE, error |-> <<>>]
Answered(success, error) == [answered |-> TRUE, success |-> success, error |-> error]

PopupCall(api, message) == [api |-> api, message |-> Chars(message)]

InitPopup ==
  /\ pc = "popup"
  /\ op \in {"download-full-page", "download-selection"}
  /\ arg \in [page : ContentPages, selection : PageSelections]
  /\ ret = [content |-> Respond(FALSE, NoMarkdown, NoFlag, <<>>),
            background |-> Unanswered]
  /\ turndownOptions = Constructed
  /\ log = <<>>
  /\ document = BlankDocument
  /\ browser = NoBrowser

Popup(position, responses, calls) ==
  /\ pc' = position
  /\ ret' = responses
  /\ log' = log \o calls
  /\ UNCHANGED <<op, arg, turndownOptions, document, browser>>

\* chrome.tabs.sendMessage(currentTab.id, { action }), part_003:378-380 and
\* 403-405: the content script answers, or there is none and the promise
\* rejects.
RequestContent ==
  /\ pc = "popup"
  /\ \/ Popup("catch", ret, <<>>)
     \/ \E thrown \in Throws :
          Popup("content",
                [ret EXCEPT !.content =
                   IF op = "download-selection"
                   THEN handleSelectionRequest(arg.selection, thrown)[1]
                   ELSE handleFullPageRequest(arg.page, thrown)[1]],
                <<>>)

\* response && response.success && response.markdown, part_003:383 and 408
contentReceived(response) ==
  response.success /\ (response.markdown.header \/ response.markdown.body # <<>>)

\* part_003:383-401 and 408-426: the Markdown goes to the background worker,
\* or an error is thrown.
CheckContent ==
  /\ pc = "content"
  /\ IF contentReceived(ret.content) THEN Popup("background", ret, <<>>)
     ELSE Popup("catch", ret, <<>>)

\* The download-full-page and download-selection messages,
\* background/index.ts:433-479: offerFileDownload starts the download and
\* the response is success, or it fails and the response is the error; or
\* the worker cannot be reached and sendMessage rejects.  A response of the
\* content script with Markdown has metadata.
DownloadMessage ==
  /\ pc = "background"
  /\ \/ Popup("catch", ret, <<>>)
     \/ Popup("answered", [ret EXCEPT !.background = Answered(TRUE, <<>>)],
              <<PopupCall("download", "started"),
                PopupCall("showNotification", "Download started")>>)
     \/ Popup("answered",
              [ret EXCEPT !.background =
                 Answered(FALSE, Chars("Failed to download file"))],
              <<PopupCall("download", "failed")>>)

\* part_003:392-397, 417-422 and 430-436: the response of the background
\* worker is awaited and not read, and the success state is set.
ShowDownloadStarted ==
  /\ pc = "answered"
  /\ Popup("done", ret, <<PopupCall("success", "Download started!")>>)

\* The catch block, part_003:437-447.
ShowDownloadError ==
  /\ pc = "catch"
  /\ Popup("done", ret, <<PopupCall("error", "Failed to download. ")>>)

NextPopup ==
  \/ RequestContent
  \/ CheckContent
  \/ DownloadMessage
  \/ ShowDownloadStarted
  \/ ShowDownloadError

SpecPopup == InitPopup /\ [][NextPopup]_vars

(***************************************************************************)
(* Properties.                                                             *)
(***************************************************************************)
Returned(o) == pc = "return" /\ op = o

RECURSIVE Flatten(_)
Flatten(parts) == IF parts = <<>> THEN <<>> ELSE Head(parts) \o Flatten(Tail(parts))

RECURSIVE SplitLines(_)
\* The lines of s, split at its newlines.
SplitLines(s) ==
  LET n == RunNotIn(s, 1, {NL})
  IN IF n = Len(s) THEN <<s>>
     ELSE <<Take(s, n)>> \o SplitLines(Drop(s, n + 1))

NonEmptyLines(s) == SelectSeq(SplitLines(s), LAMBDA line : line # <<>>)

AllWhiteSpace(s) == \A i \in 1..Len(s) : s[i] \in WhiteSpace

\* t is s without its leading and trailing white space.
IsTrimOf(t, s) ==
  /\ t = <<>> \/ (t[1] \notin WhiteSpace /\ t[Len(t)] \notin WhiteSpace)
  /\ \E i \in 0..Len(s) :
       /\ i + Len(t) <= Len(s)
       /\ AllWhiteSpace(Take(s, i))
       /\ SubSeq(s, i + 1, i + Len(t)) = t
       /\ AllWhiteSpace(Drop(s, i + Len(t)))

\* html is the empty string or white space only.
BlankHtml(html) == html = <<>> \/ (Len(html) = 1 /\ IsText(html[1]))

\* The header of convert for the call in arg, with timestamp now.
ExpectedHeader(now) ==
  (IF arg.options.baseUrl.present /\ arg.options.baseUrl.value # <<>>
   THEN Chars("Source: ") \o arg.options.baseUrl.value \o <<NL>>
   ELSE <<>>)
    \o Chars("Captured: ") \o now

TableUniform(rows) == \A r \in 1..Len(rows) : Len(rows[r]) = Len(rows[1])

\* No cell text keeps a line break after trimming.
TableOneLineCells(rows) ==
  \A r \in 1..Len(rows) : \A c \in 1..Len(rows[r]) :
    \A i \in 1..Len(trim(rows[r][c])) : trim(rows[r][c])[i] # NL

\* '| c1 | ... | cM |' for the cells of a row, '| --- | ... | --- |' for M.
ExpectedRowLine(cells) ==
  Chars("| ") \o join(cellContents(cells), Chars(" | ")) \o Chars(" |")

ExpectedSeparatorLine(m) ==
  Chars("| ") \o join([c \in 1..m |-> Chars("---")], Chars(" | ")) \o Chars(" |")

\* The N+1 lines of a table of N rows: row 1, the separator, rows 2..N.
ExpectedTableLines(rows) ==
  [j \in 1..(Len(rows) + 1) |->
     IF j = 1 THEN ExpectedRowLine(rows[1])
     ELSE IF j = 2 THEN ExpectedSeparatorLine(Len(rows[1]))
     ELSE ExpectedRowLine(rows[j - 1])]

\* C2: for a table of N >= 1 rows of M cells each the table rule emits, in
\* this order, row 1, one separator of M '---' segments and rows 2..N, each
\* as '| c1 | ... | cM |' followed by a newline, between a leading blank line
\* and a trailing newline; when no cell text holds a line break these are
\* exactly the N+1 non-empty lines of the output.
C2_TableShape ==
  (Returned("table") /\ Len(arg) >= 1 /\ TableUniform(arg)) =>
    LET lines == ExpectedTableLines(arg)
    IN /\ ret = <<NL, NL>>
                  \o Flatten([j \in 1..Len(lines) |-> lines[j] \o <<NL>>])
                  \o <<NL>>
       /\ TableOneLineCells(arg) => NonEmptyLines(ret) = lines

C2_Witness ==
  /\ Returned("table")
  /\ Len(arg) = 2 /\ Len(arg[1]) = 2 /\ Len(arg[2]) = 2
  /\ arg[1][1] # arg[1][2] /\ arg[1] # arg[2]
  /\ TableOneLineCells(arg)
  /\ Len(NonEmptyLines(ret)) = 3

\* ---- C3 -----------------------------------------------------------------
\* The places of the pipes of a line that no backslash precedes.
UnescapedPipes(line) ==
  {i \in 1..Len(line) : line[i] = "|" /\ (i = 1 \/ line[i - 1] # "\\")}

RECURSIVE Unescaped(_)
\* s with the backslash before each pipe taken out.
Unescaped(s) ==
  IF s = <<>> THEN <<>>
  ELSE IF Len(s) >= 2 /\ s[1] = "\\" /\ s[2] = "|" THEN <<"|">> \o Unescaped(Drop(s, 2))
  ELSE <<Head(s)>> \o Unescaped(Tail(s))

\* The text between the k-th and the (k+1)-th unescaped pipe of a line.
Segment(line, k) ==
  LET at == UnescapedPipes(line)
      from == CHOOSE i \in at : Cardinality({x \in at : x < i}) = k - 1
      to == CHOOSE i \in at : Cardinality({x \in at : x < i}) = k
  IN SubSeq(line, from + 1, to - 1)

\* The line of row r among the non-empty lines of the output.
RowLineIndex(r) == IF r = 1 THEN 1 ELSE r + 1

\* The pipes that delimit a row of m cells ('|  |' for a row of none).
Delimiters(m) == IF m = 0 THEN 2 ELSE m + 1

RECURSIVE TotalDelimiters(_)
TotalDelimiters(rows) ==
  IF rows = <<>> THEN 0
  ELSE Delimiters(Len(Head(rows))) + TotalDelimiters(Tail(rows))

C4_WhitespaceHoisted ==
  (pc = "return" /\ op \in {"strong", "emphasis"}) =>
    LET d == IF op = "strong" THEN <<"*", "*">> ELSE <<"*">>
        n == Len(arg)
    IN IF AllWhiteSpace(arg) THEN ret = <<>>
       ELSE \E i \in 0..(n - 1) : \E j \in (i + 1)..n :
              /\ AllWhiteSpace(Take(arg, i))
              /\ arg[i + 1] \notin WhiteSpace
              /\ arg[j] \notin WhiteSpace
              /\ AllWhiteSpace(Drop(arg, j))
              /\ ret = Take(arg, i) \o d \o SubSeq(arg, i + 1, j) \o d \o Drop(arg, j)

C4_Witness ==
  /\ Returned("strong")
  /\ Len(arg) = 4
  /\ arg[1] = " " /\ arg[2] = "a" /\ arg[3] = "b" /\ arg[4] = NL
  /\ ret = <<" ", "*", "*", "a", "b", "*", "*", NL>>

\* ---- C5 -----------------------------------------------------------------
\* C5: the fenced code block rule takes a node exactly when it is a pre whose
\* first child node is a code element, and then gives a blank line, the
\* fence directly followed by the language, a newline, the text of the code
\* element, a newline, the fence and a blank line; the language is the run of
\* word characters after the leftmost 'language-' of the class that a word
\* character follows, and empty when the class has none or is absent.
C5_FencedCodeBlock ==
  Returned("fencedCodeBlock") =>
    /\ ret.applies <=>
         /\ arg.nodeName = "PRE"
         /\ Len(arg.childNodes) >= 1
         /\ arg.childNodes[1].nodeName = "CODE"
    /\ ret.applies =>
         LET code == arg.childNodes[1]
             class == IF code.class.present THEN code.class.value ELSE <<>>
             word == Chars("language-")
             Hint(i) == IsPrefixAt(class, i, word)
                          /\ i + 9 <= Len(class) /\ class[i + 9] \in WordChars
         IN \E lang \in {SubSeq(class, a, b) : a \in 1..(Len(class) + 1), b \in 0..Len(class)} :
              /\ \A k \in 1..Len(lang) : lang[k] \in WordChars
              /\ IF \E i \in 1..Len(class) : Hint(i)
                 THEN \E i \in 1..Len(class) :
                        /\ Hint(i)
                        /\ \A x \in 1..(i - 1) : ~Hint(x)
                        /\ lang # <<>>
                        /\ IsPrefixAt(class, i + 9, lang)
                        /\ (i + 9 + Len(lang) > Len(class)
                              \/ class[i + 9 + Len(lang)] \notin WordChars)
                 ELSE lang = <<>>
              /\ ret.markdown = <<NL, NL>> \o Fence \o lang \o <<NL>>
                                  \o code.textContent
                                  \o <<NL>> \o Fence \o <<NL, NL>>
    /\ ~ret.applies => ret.markdown = <<>>

C5_Witness ==
  /\ Returned("fencedCodeBlock")
  /\ ret.applies
  /\ Len(arg.childNodes) = 2
  /\ arg.childNodes[1].class = Attr(Chars("hljs language-c++ x"))
  /\ arg.childNodes[1].textContent = Chars("const x = 5;")
  /\ ret.markdown = <<NL, NL>> \o Fence \o <<"c", NL>> \o Chars("const x = 5;")
                      \o <<NL>> \o Fence \o <<NL, NL>>

\* ---- C6 -----------------------------------------------------------------
\* C6: the image rule gives nothing for an img without src, and otherwise
\* '![alt](src)', with 'image' for an absent or empty alt and with ' "title"'
\* after the src exactly when the title is present and not empty.
C6_Image ==
  Returned("image") =>
    IF ~arg.src.present THEN ret = <<>>
    ELSE ret = <<"!", "[">>
                 \o (IF arg.alt.present /\ arg.alt.value # <<>>
                     THEN arg.alt.value ELSE Chars("image"))
                 \o <<"]", "(">> \o arg.src.value
                 \o (IF arg.title.present /\ arg.title.value # <<>>
                     THEN <<" ", "\"">> \o arg.title.value \o <<"\"">> ELSE <<>>)
                 \o <<")">>

C6_Witness ==
  /\ Returned("image")
  /\ arg.src.present /\ arg.alt = Attr(<<>>) /\ arg.title = Attr(Chars("Image Title"))
  /\ ret = Chars("![image](https://example.com/image.jpg \"Image Title\")")

\* ---- C7 -----------------------------------------------------------------
\* C7: convertWithMetadata returns the markdown 'Source: [title](url)',
\* newline, 'Captured: ts', blank line, '---', blank line and the cleaned
\* conversion of html, and the metadata with the title and url given and the
\* ts of the Captured line.
C7_ConvertWithMetadata ==
  Returned("convertWithMetadata") =>
    \E ts \in ISOStamps :
      /\ ret.markdown =
           Chars("Source: [") \o arg.title \o <<"]", "(">> \o arg.url \o <<")", NL>>
             \o Chars("Captured: ") \o ts
             \o <<NL, NL, "-", "-", "-", NL, NL>>
             \o cleanupMarkdown(turndown(arg.html))
      /\ ret.metadata.title = arg.title
      /\ ret.metadata.url = arg.url
      /\ ret.metadata.timestamp = ts

C7_Witness ==
  /\ Returned("convertWithMetadata")
  /\ arg.title = Chars("Test Page")
  /\ Len(arg.html) = 2 /\ arg.html[1].nodeName = "H1" /\ arg.html[2].nodeName = "P"
  /\ ret.metadata.timestamp = Chars("2025-09-09T16:14:00.001Z")

\* ---- C8 -----------------------------------------------------------------
\* C8: convert returns the cleaned body when includeMetadata is absent or
\* false, and when it is true the header, a blank line, '---', a blank line
\* and the same body; the header is 'Source: <baseUrl>' and 'Captured: ts'
\* on two lines for a baseUrl that is given and not empty, and the Captured
\* line alone otherwise.
C8_Convert ==
  Returned("convert") =>
    LET body == cleanupMarkdown(turndown(arg.html))
    IN IF arg.options.includeMetadata = "true"
       THEN \E ts \in ISOStamps :
              ret = ExpectedHeader(ts) \o <<NL, NL, "-", "-", "-", NL, NL>> \o body
       ELSE ret = body

C8_Witness ==
  /\ Returned("convert")
  /\ arg.options.includeMetadata = "true"
  /\ arg.options.baseUrl = Attr(<<>>)
  /\ Len(arg.html) = 1 /\ arg.html[1].nodeName = "P"
  /\ Take(ret, 9) = Chars("Captured:")

\* ---- C9 -----------------------------------------------------------------
\* C9 as stated: the cleanup pass is idempotent, cleaning its own output
\* again changes nothing.
C9_CleanupIdempotent ==
  Returned("cleanupMarkdown") => cleanupMarkdown(ret) = ret

\* ---- C10 ----------------------------------------------------------------
AllHeadings(html) == \A i \in 1..Len(html) : html[i].nodeName \in Headings

\* C10 as stated: headings convert to their ATX lines, '#' markers, one
\* space and the text, with the blank line between one heading and the next
\* kept.
C10_HeadingsKeepBlankLine ==
  (Returned("convert") /\ arg.options.includeMetadata # "true"
     /\ AllHeadings(arg.html)) =>
    ret = join([i \in 1..Len(arg.html) |->
                  repeat("#", headingLevel(arg.html[i])) \o <<" ">> \o arg.html[i].text],
               <<NL, NL>>)

\* ---- C11 ----------------------------------------------------------------
\* The Markdown body of a logged convert call: what it returned without the
\* metadata header, which holds the timestamp.
BodyOf(call) ==
  IF call.input.options.includeMetadata = "true"
  THEN Drop(call.ret,
            Len(generateMetadata(call.input.options.baseUrl, call.now)
                  \o MetadataRule))
  ELSE call.ret

ConvertCalls == {k \in 1..Len(log) : log[k].op = "convert"}

IsString(v) == v \in Seq(STRING)

\* C12: no custom rule raises.  The table, strong, emphasis and image
\* replacements return a string for every node, among them a table without
\* rows, with rows of different lengths and with rows without cells, an
\* image without alt, src or title, and empty content; the fenced code block
\* replacement raises on no node its filter takes and returns a string
\* there; convert and convertWithMetadata return their string and record.
C12_NoRuleRaises ==
  /\ \A o \in {"table", "strong", "emphasis", "image", "convert"} :
       Returned(o) => IsString(ret)
  /\ Returned("fencedCodeBlock") =>
       /\ ~ret.raised
       /\ IsString(ret.markdown)
  /\ Returned("convertWithMetadata") => IsString(ret.markdown)

\* A pre whose first child is a code element without a class attribute,
\* followed by a text node, was taken by the rule and gave the fence.
C12_Witness ==
  /\ Returned("fencedCodeBlock")
  /\ arg.nodeName = "PRE"
  /\ Len(arg.childNodes) = 2
  /\ arg.childNodes[1] =
       [nodeName |-> "CODE", class |-> Absent, textContent |-> Chars("const x = 5;")]
  /\ arg.childNodes[2].nodeName = "#text"
  /\ ret.applies
  /\ ~ret.raised
  /\ ret.markdown # <<>>

\* ---- C13 ----------------------------------------------------------------
RECURSIVE ElementsOf(_)
\* Every element of a list of elements, at any depth.
ElementsOf(nodes) ==
  UNION {{nodes[i]} \cup ElementsOf(nodes[i].children) : i \in 1..Len(nodes)}

Denylist == {unwantedSelectors[i] : i \in 1..Len(unwantedSelectors)}

IsNoise(el) ==
  \/ el.tag \in {"script", "style"}
  \/ /\ "style" \in DOMAIN el.attrs
     /\ \/ Includes(el.attrs["style"], Chars("display: none"))
        \/ Includes(el.attrs["style"], Chars("display:none"))
  \/ matchesList(el, Denylist)
  \/ \E name \in DOMAIN el.attrs : IsPrefixAt(Chars(name), 1, Chars("data-"))

\* The last call was one of the three extractions and returned a record.
Extraction ==
  /\ op \in {"extractFullPage", "extractFromSelector", "extractSelection"}
  /\ ret # NoResult

\* C13: the html an extraction returns holds, at any depth, no script or
\* style element, no element with an inline display: none or display:none
\* style, no element of the denylist and no attribute whose name starts
\* with data-.
C13_NoNoiseInHtml ==
  Extraction => \A el \in ElementsOf(ret.html.children) : ~IsNoise(el)

\* A full page whose body is a main element with a data- attribute, holding
\* a p with a data-id and an onclick attribute: the p is returned with its
\* onclick attribute only.
C13_Witness ==
  /\ op = "extractFullPage"
  /\ NodeAt(document.root, BodyPath).children =
       <<El("main", "data-x" :> <<>>, <<"a">>,
            <<El("p", ("data-id" :> <<"1">>) @@ ("onclick" :> Chars("f()")),
                 <<"a">>, <<>>)>>)>>
  /\ Len(ret.html.children) = 1
  /\ DOMAIN ret.html.children[1].attrs = {"onclick"}

\* ---- C14 ----------------------------------------------------------------
\* C14: no operation of the extractor changes the live document: in every
\* step of every sequence of extractFullPage, extractSelection,
\* extractFromSelector, extractPageMetadata and sanitizeHtml calls the
\* document (title, URL, elements, attributes, order) stays as it was.
C14_LiveDocumentUnchanged == [][document' = document]_vars

\* After extractFromSelector, extractSelection and extractFullPage on a body
\* holding an article with a data- attribute and a script in it: the page
\* returned is the article without the script, and the live article still
\* has its script and its attribute.
C14_Witness ==
  /\ log = <<"extractFromSelector", "extractSelection", "extractFullPage">>
  /\ NodeAt(document.root, BodyPath).children =
       <<El("article", "data-x" :> <<"1">>, <<"a">>,
            <<El("script", NoAttrs, <<"s">>, <<>>)>>)>>
  /\ ret.html = [text |-> <<"a">>, children |-> <<>>]

\* ---- C15 ----------------------------------------------------------------
\* The body extractFullPage looks for the main content in.
CleanedBody == removeUnwantedElements(NodeAt(document.root, BodyPath))

\* The selectors of the list, by their place in it, that match some
\* descendant of an element.
ListedWithMatch(element) ==
  {k \in 1..Len(mainSelectors) :
     \E path \in {DescendantPaths(element)[i] : i \in 1..Len(DescendantPaths(element))} :
       matches(NodeAt(element, path), mainSelectors[k])}

\* The first descendant in document order for which test holds.
FirstInOrder(element, test(_)) ==
  LET paths == DescendantPaths(element)
  IN NodeAt(element,
            paths[Min({i \in 1..Len(paths) : test(NodeAt(element, paths[i]))})])

\* C15: when some selector of the list has a match in the cleaned body, the
\* page returned is the first element in document order that matches the
\* earliest such selector, whatever matches a later selector and wherever.
C15_EarliestSelectorFirstMatch ==
  (op = "extractFullPage" /\ ListedWithMatch(CleanedBody) # {}) =>
    LET k == Min(ListedWithMatch(CleanedBody))
        main == FirstInOrder(CleanedBody, LAMBDA el : matches(el, mainSelectors[k]))
    IN /\ ret.html = innerHTML(main)
       /\ ret.text = textContent(main)

\* A body with a .content element before and around an article: the article
\* is returned.
C15_Witness ==
  /\ op = "extractFullPage"
  /\ NodeAt(document.root, BodyPath).children =
       <<El("div", "class" :> Chars("content"), <<"7">>,
            <<El("article", NoAttrs, <<"2">>, <<>>)>>)>>
  /\ ret.html = [text |-> <<"2">>, children |-> <<>>]

\* ---- C16 ----------------------------------------------------------------
\* The div, section and article descendants of an element, in document
\* order.
Candidates(element) ==
  SelectSeq(DescendantPaths(element),
            LAMBDA path : NodeAt(element, path).tag \in {"div", "section", "article"})

TextLength(element, path) == Len(textContent(NodeAt(element, path)))

\* The first of the candidates among which none has a longer text.
FirstLongest(element) ==
  LET c == Candidates(element)
      longest == Max({TextLength(element, c[i]) : i \in 1..Len(c)})
  IN NodeAt(element, c[Min({i \in 1..Len(c) : TextLength(element, c[i]) = longest})])

NoListedMatch == op = "extractFullPage" /\ ListedWithMatch(CleanedBody) = {}

\* C16 as stated: without a match of the list, the page returned is the
\* candidate with the longest text, the first of them in document order, and
\* the whole cleaned body only if there is no candidate.
C16_LargestOfAllCandidates ==
  NoListedMatch =>
    ret.html = innerHTML(IF Candidates(CleanedBody) # <<>>
                         THEN FirstLongest(CleanedBody) ELSE CleanedBody)

\* C16, amended: without a match of the list, the page returned is the
\* candidate with the longest text, the first of them in document order, if
\* some candidate has text; it is the whole cleaned body if there is no
\* candidate or none has any text.
C16_LargestWithText ==
  NoListedMatch =>
    LET c == Candidates(CleanedBody)
        withText == \E i \in 1..Len(c) : TextLength(CleanedBody, c[i]) > 0
        main == IF withText THEN FirstLongest(CleanedBody) ELSE CleanedBody
    IN /\ ret.html = innerHTML(main)
       /\ ret.text = textContent(main)

\* Two blocks with texts of the same length, the second a section: the first
\* is returned.
C16_Witness ==
  /\ op = "extractFullPage"
  /\ NodeAt(document.root, BodyPath).children =
       <<El("div", "class" :> Chars("contents"), Chars("bb"), <<>>),
         El("section", NoAttrs, Chars("cc"), <<>>)>>
  /\ ret.html = [text |-> Chars("bb"), children |-> <<>>]

\* ---- C17 ----------------------------------------------------------------
\* A range that holds nothing.
Collapsed(range) == range.text = <<>> /\ range.from > range.to

\* C17: extractSelection returns null exactly when there is no selection,
\* the selection has no range, or its range is collapsed; otherwise it
\* returns a record.
C17_NullWhenNothingSelected ==
  op = "extractSelection" =>
    (ret = NoResult <=>
       \/ ~arg.exists
       \/ Len(arg.ranges) = 0
       \/ Collapsed(arg.ranges[1]))

\* ---- C18 ----------------------------------------------------------------
\* The metadata record of the last call, if it returned one.
HasMetadata ==
  \/ op = "extractPageMetadata"
  \/ op \in {"extractFullPage", "extractFromSelector"} /\ ret # NoResult
MetadataReturned == IF op = "extractPageMetadata" THEN ret ELSE ret.metadata

\* C18: the title of every metadata record is not empty: it is the title of
\* the document if that is not empty and 'Untitled' otherwise.
C18_TitleNeverEmpty ==
  HasMetadata =>
    LET title == IF document.title.present THEN trim(document.title.value)
                 ELSE <<>>
    IN /\ MetadataReturned.title # <<>>
       /\ MetadataReturned.title = IF title # <<>> THEN title ELSE Chars("Untitled")

\* A full page of a document whose title element holds white space only.
C18_Witness ==
  /\ op = "extractFullPage"
  /\ document.title = Attr(<<" ", NL>>)
  /\ ret.metadata.title = Chars("Untitled")

\* ---- C19 ----------------------------------------------------------------
IsMeta(el, attr, value) ==
  /\ el.tag = "meta"
  /\ attr \in DOMAIN el.attrs
  /\ el.attrs[attr] = Chars(value)

HasMeta(attr, value) ==
  \E el \in ElementsOf(<<document.root>>) : IsMeta(el, attr, value)

\* The content attribute of the first such meta element of the document.
MetaContent(attr, value) ==
  getAttribute(FirstInOrder(document.root, LAMBDA el : IsMeta(el, attr, value)),
               "content")

NonEmpty(a) == IF a.present /\ a.value # <<>> THEN a ELSE Absent

\* C19 as stated: description is the content of the og:description tag when
\* there is one, else the content of the meta description when there is one,
\* else undefined; author and publishedTime are undefined without their
\* tags.
C19_DescriptionIsContent ==
  op = "extractPageMetadata" =>
    /\ ret.description =
         IF HasMeta("property", "og:description")
         THEN MetaContent("property", "og:description")
         ELSE IF HasMeta("name", "description")
              THEN MetaContent("name", "description")
              ELSE Absent
    /\ (~HasMeta("name", "author") /\ ~HasMeta("property", "article:author"))
         => ret.author = Absent
    /\ (/\ ~HasMeta("property", "article:published_time")
        /\ ~HasMeta("name", "publish_date"))
         => ret.publishedTime = Absent

\* C19, amended: description is the content of the og:description tag when
\* there is one, else that of the meta description when there is one, if
\* that content is not empty; it is undefined when the tag read has no or an
\* empty content (the meta description is not read when an og:description
\* tag exists) and when neither tag exists.
C19_DescriptionIsNonEmptyContent ==
  op = "extractPageMetadata" =>
    /\ ret.description =
         IF HasMeta("property", "og:description")
         THEN NonEmpty(MetaContent("property", "og:description"))
         ELSE IF HasMeta("name", "description")
              THEN NonEmpty(MetaContent("name", "description"))
              ELSE Absent
    /\ (~HasMeta("name", "author") /\ ~HasMeta("property", "article:author"))
         => ret.author = Absent
    /\ (/\ ~HasMeta("property", "article:published_time")
        /\ ~HasMeta("name", "publish_date"))
         => ret.publishedTime = Absent

\* A document with a meta description followed by an og:description, and no
\* author or published time.
C19_Witness ==
  /\ op = "extractPageMetadata"
  /\ NodeAt(document.root, <<1>>).children =
       <<MetaEl("name", "description", Content("This is a test page description")),
         MetaEl("property", "og:description", Content("OpenGraph description"))>>
  /\ ret.description = Attr(Chars("OpenGraph description"))
  /\ ret.author = Absent
  /\ ret.publishedTime = Absent

\* ---- C20 ----------------------------------------------------------------
RECURSIVE Utf8Length(_)
\* The number of bytes of the UTF-8 encoding of a string.
Utf8Length(html) ==
  IF html = <<>> THEN 0
  ELSE Head(html).bytes * Head(html).count + Utf8Length(Tail(html))

\* C20: checkContentSize(html, T) is true exactly when html takes more
\* than T bytes in UTF-8, T being 1,048,576 when it is left out.
C20_ByBytes ==
  Returned("checkContentSize") =>
    LET T == IF arg.threshold.present THEN arg.threshold.value ELSE 1048576
    IN /\ Utf8Length(arg.html) > T => ret = TRUE
       /\ Utf8Length(arg.html) <= T => ret = FALSE

\* 524,288 characters of two bytes and one of three: 524,289 characters in
\* 1,048,579 bytes, over the default threshold.
C20_Witness ==
  /\ Returned("checkContentSize")
  /\ arg.html = <<[bytes |-> 2, units |-> 1, count |-> 524288],
                  [bytes |-> 3, units |-> 1, count |-> 1]>>
  /\ ~arg.threshold.present
  /\ ret = TRUE

\* ---- C21 ----------------------------------------------------------------
RECURSIVE Preorder(_, _, _)
\* The elements of a list of elements in document order, each with its
\* depth and whether it is a script or lies inside one.
Preorder(nodes, depth, inScript) ==
  IF nodes = <<>> THEN <<>>
  ELSE LET el == Head(nodes)
           below == inScript \/ el.tag = "script"
       IN <<[depth |-> depth, tag |-> el.tag, attrs |-> el.attrs,
             text |-> el.text, inScript |-> below]>>
            \o Preorder(el.children, depth + 1, below)
            \o Preorder(Tail(nodes), depth, inScript)

IsHandler(name) == IsPrefixAt(Chars(name), 1, Chars("on"))

WithoutHandlers(entry) ==
  [entry EXCEPT !.attrs =
     [n \in {a \in DOMAIN entry.attrs : ~IsHandler(a)} |-> entry.attrs[n]]]

\* What is to stay of a list of elements: its elements outside scripts, in
\* order and at their depth, with their attributes that are not on*.
Remaining(nodes) ==
  LET outside == SelectSeq(Preorder(nodes, 0, FALSE), LAMBDA e : ~e.inScript)
  IN [i \in 1..Len(outside) |-> WithoutHandlers(outside[i])]

\* C21: sanitizeHtml returns a tree with no script element and no attribute
\* whose name starts with on, at any depth, and changes nothing else: the
\* text before the first element and every element outside a script are
\* kept in order, at the same depth, with the same text and the same
\* other attributes (style elements, hidden elements and data- attributes
\* included), so html without script and on* attribute comes back as it is.
C21_SanitizeOnly ==
  op = "sanitizeHtml" =>
    /\ \A el \in ElementsOf(ret.children) :
         el.tag # "script" /\ \A name \in DOMAIN el.attrs : ~IsHandler(name)
    /\ ret.text = arg.text
    /\ Preorder(ret.children, 0, FALSE) = Remaining(arg.children)
    /\ (\A el \in ElementsOf(arg.children) :
          el.tag # "script" /\ \A name \in DOMAIN el.attrs : ~IsHandler(name))
         => ret = arg

\* A p with a data-id and an onclick attribute holding a script: the p comes
\* back empty, with its data-id attribute only.
C21_Witness ==
  /\ op = "sanitizeHtml"
  /\ arg.children =
       <<El("p", ("data-id" :> <<"1">>) @@ ("onclick" :> Chars("f()")), <<"a">>,
            <<El("script", NoAttrs, <<"s">>, <<>>)>>)>>
  /\ ret.children = <<El("p", "data-id" :> <<"1">>, <<"a">>, <<>>)>>

\* ---- C22 ----------------------------------------------------------------
\* The browser calls of the try block and of the whole call.
FirstCall == log[1]
ClipboardWritten == \E i \in 1..Len(log) : log[i].api = "writeText"
Succeeded == pc = "resolved" /\ ret.success

\* A truncated version of the content: shorter than it, ending in the
\* notice.
IsTruncated(content) ==
  /\ content.notice
  /\ calculateSize(content) < originalSize

\* C22: writeToClipboard routes by the size s of the content in bytes.  If
\* s > maxSize and the download fallback is enabled the content is
\* downloaded (method download) and the clipboard is never written;
\* otherwise, if s <= truncateAt, the whole content is written to the
\* clipboard (method clipboard); otherwise a truncated version is written
\* (method truncated).  One of the three is what the call does first.
C22_RoutesBySize ==
  (op = "writeToClipboard" /\ log # <<>>) =>
    IF originalSize > config.maxSize /\ config.useDownloadFallback
    THEN /\ FirstCall.api = "download"
         /\ FirstCall.content = Whole(arg.content)
         /\ ~ClipboardWritten
         /\ (Succeeded /\ Len(log) = 1) => ret.method = "download"
    ELSE IF originalSize <= config.truncateAt
    THEN /\ FirstCall.api = "writeText"
         /\ FirstCall.content = Whole(arg.content)
         /\ (Succeeded /\ Len(log) = 1) => ret.method = "clipboard"
    ELSE /\ FirstCall.api = "writeText"
         /\ IsTruncated(FirstCall.content)
         /\ (Succeeded /\ Len(log) = 1) => ret.method = "truncated"

\* ---- C23 ----------------------------------------------------------------
WriteFailed ==
  /\ op = "writeToClipboard"
  /\ log # <<>>
  /\ FirstCall.api = "writeText"
  /\ FirstCall.error.present

\* C23: writeToClipboard never rejects: a failed browser call of the try
\* block takes it to the catch block, and it resolves with a result.  When
\* the clipboard write fails, the download fallback is enabled and metadata
\* was given, the whole original content is downloaded next and the result
\* is success with method download if that works and failure if not; when
\* the fallback is disabled or no metadata was given nothing else is tried
\* and the result is failure with the message of the clipboard error
\* (Unknown clipboard error for a thrown value that is not an Error).
C23_ClipboardFailure ==
  /\ pc \in {"try", "catch", "resolved"}
  /\ pc = "try" => log = <<>>
  /\ pc = "catch" => log[Len(log)].error.present
  /\ pc = "resolved" => ret.success \in BOOLEAN
  /\ (WriteFailed /\ pc = "resolved") =>
       IF config.useDownloadFallback /\ arg.metadata.present
       THEN /\ Len(log) = 2
            /\ log[2].api = "download"
            /\ log[2].content = Whole(arg.content)
            /\ IF log[2].error.present THEN ~ret.success
               ELSE ret.success /\ ret.method = "download"
       ELSE /\ Len(log) = 1
            /\ ~ret.success
            /\ ret.error =
                 Attr(IF FirstCall.error.value.isError
                      THEN FirstCall.error.value.message
                      ELSE Chars("Unknown clipboard error"))

\* The write of a truncated content failed and the whole content was
\* downloaded.
C23_Witness ==
  /\ pc = "resolved"
  /\ WriteFailed
  /\ FirstCall.content.notice
  /\ Len(log) = 2
  /\ log[2].content = Whole(arg.content)
  /\ ret.success
  /\ ret.method = "download"

\* ---- C27 ----------------------------------------------------------------
Digits == {"0", "1", "2", "3", "4", "5", "6", "7", "8", "9"}

\* YYYY-MM-DD_HH-mm-ss
IsFilenameStamp(s) ==
  /\ Len(s) = 19
  /\ \A i \in {5, 8, 14, 17} : s[i] = "-"
  /\ s[11] = "_"
  /\ \A i \in (1..19) \ {5, 8, 11, 14, 17} : s[i] \in Digits

\* The extension asked for, and the length of what stands before the
\* underscore and the stamp in the returned file name.
ExtensionAsked == IF arg.extension.present THEN arg.extension.value ELSE Chars("md")
NameLength == Len(ret) - Len(ExtensionAsked) - 21
NamePart == Take(ret, NameLength)

\* C27: generateFilename(title, ext) returns <name>_<YYYY-MM-DD_HH-mm-ss>.<ext>
\* for every title, ext being md if not given; name holds none of
\* < > : " / \ | ? * and no white space, has at most 100 characters,
\* neither starts nor ends with - or _, and is markdownified-content when
\* the title is empty or undefined.
C27_SafeFilename ==
  Returned("generateFilename") =>
    /\ NameLength >= 0
    /\ Drop(ret, NameLength) =
         <<"_">> \o SubSeq(ret, NameLength + 2, NameLength + 20) \o <<".">>
           \o ExtensionAsked
    /\ IsFilenameStamp(SubSeq(ret, NameLength + 2, NameLength + 20))
    /\ \A i \in 1..NameLength :
         NamePart[i] \notin InvalidFilenameChars \cup WhiteSpace
    /\ NameLength <= 100
    /\ NameLength > 0 =>
         /\ NamePart[1] \notin {"-", "_"}
         /\ NamePart[NameLength] \notin {"-", "_"}
    /\ (~arg.title.present \/ arg.title.value = <<>>) =>
         NamePart = Chars("markdownified-content")

\* ---- C24 ----------------------------------------------------------------
LargePage == op = "get-full-page" /\ sizeInBytes(arg.page.html) > 1048576
DownloadStarted == \E i \in 1..Len(log) : log[i].api = "download"

\* C24: a request to copy a page whose content is over 1 MB, once the
\* content script has it, ends with a file download of the Markdown started
\* in place of the clipboard copy, not with an error and nothing delivered.
C24_LargePageDownloaded ==
  (LargePage /\ pc = "content") ~> (pc = "done" /\ DownloadStarted)

\* ---- C25 ----------------------------------------------------------------
ShowResolved == pc = "idle" /\ op \in {"showSuccess", "showError"}
Made(api, outcome) == \E i \in 1..Len(log) : log[i] = ApiCall(api, outcome)

\* C25: when chrome.notifications.create fails with a runtime error while
\* the notification is being shown, show falls back to a DOM notification
\* and returns success with method dom-fallback; it returns failure only
\* when the DOM notification fails as well.
C25_RuntimeErrorFallsBack ==
  (ShowResolved /\ Made("notifications.create", "lastError")) =>
    \/ Made("document.createElement", "shown")
         /\ ret.success /\ ret.method = "dom-fallback"
    \/ Made("document.createElement", "throws") /\ ~ret.success

\* ---- C26 ----------------------------------------------------------------
TimersOf(n) == {t \in browser.timers : t.of = "chrome" /\ t.id = n.id}

\* A Chrome notification on screen has one timer, of 3000 ms, if it does
\* not require interaction, and none if it does; every timer of a Chrome
\* notification belongs to one on screen.
OneTimerEach ==
  /\ \A n \in browser.notifications :
       IF n.requireInteraction THEN TimersOf(n) = {}
       ELSE /\ Cardinality(TimersOf(n)) = 1
            /\ \A t \in TimersOf(n) : t.delay = 3000
  /\ \A t \in browser.timers :
       t.of = "chrome" => \E n \in browser.notifications : n.id = t.id

\* A Chrome notification is created without requireInteraction exactly if
\* the caller gave false, or gave nothing to showSuccess.
CreatedAsAsked ==
  \A n \in browser.notifications' \ browser.notifications :
    n.requireInteraction = (arg.requireInteraction = Attr(TRUE))

\* The timer of a notification fires: the notification is cleared, and
\* nothing else leaves the screen.
FiringClears ==
  \A t \in browser.timers \ browser.timers' :
    (t.of = "chrome" /\ pc' = pc /\ op' = op) =>
      browser.notifications' = {n \in browser.notifications : n.id # t.id}

\* A notification that requires interaction leaves the screen by a clear
\* call only.
StaysUntilCleared ==
  \A n \in browser.notifications \ browser.notifications' :
    n.requireInteraction => op' = "clear" /\ arg'.notificationId = n.id

\* C26: every Chrome notification created with requireInteraction false or
\* not given gets exactly one auto-dismiss timer of 3000 ms, which clears
\* that notification when it fires; one created with requireInteraction
\* true (every showError, unless the caller says otherwise) never gets a
\* timer and stays until it is cleared explicitly.
C26_AutoDismiss ==
  /\ []OneTimerEach
  /\ [][CreatedAsAsked /\ FiringClears /\ StaysUntilCleared]_vars

\* A showError notification is on screen without a timer after the timer of
\* a showSuccess notification has fired and cleared it.
C26_Witness ==
  /\ browser.ids = 2
  /\ browser.notifications = {[id |-> 2, requireInteraction |-> TRUE]}
  /\ browser.timers = {}
  /\ op = "showError"
  /\ Made("notifications.create", "created")
  /\ Made("timeout", "chrome")

\* ---- C28 ----------------------------------------------------------------
\* C28: the output of the cleanup pass never holds three newline characters
\* in a row, whatever the input, blank lines made of spaces included.
C28_NoThreeNewlines ==
  Returned("cleanupMarkdown") =>
    \A i \in 1..Len(ret) : RunIn(ret, i, {NL}) < 3

\* ---- C29 ----------------------------------------------------------------
\* C29: a table with zero rows gives the empty string from the table rule:
\* no pipe, no separator line, no blank line around.
C29_EmptyTable ==
  (Returned("table") /\ Len(arg) = 0) => ret = <<>>

\* The table rule has returned for a table without rows.
C29_Witness == Returned("table") /\ arg = <<>> /\ ret = <<>>

\* ---- C30 ----------------------------------------------------------------
NoiseSteps == {"scripts and styles", "hidden", "denylist", "data attributes"}

\* One step of removeUnwantedElements, part_001:154-193.
NoiseStep(name, element) ==
  CASE name = "scripts and styles" ->
         removeMatching(removeMatching(element, {Tag("script")}), {Tag("style")})
    [] name = "hidden" -> removeMatching(element, HiddenSelectors)
    [] name = "denylist" -> removeEach(element, unwantedSelectors)
    [] name = "data attributes" -> removeAttributesBelow(element, "data-")

RECURSIVE InOrder(_, _)
\* The steps of a sequence applied one after the other.
InOrder(steps, element) ==
  IF steps = <<>> THEN element
  ELSE InOrder(Tail(steps), NoiseStep(Head(steps), element))

\* The orders the four steps can run in.
Orders ==
  {order \in [1..4 -> NoiseSteps] : \A i, j \in 1..4 : i # j => order[i] # order[j]}

\* The body of the page, as extractFullPage hands it to the pass.
PageBody == NodeAt(document.root, BodyPath)

\* C30: the noise-removal pass is idempotent and does not depend on the
\* order of its four steps: running removeUnwantedElements on its own
\* result gives that result, and the steps (script and style removal,
\* hidden-element removal, denylist removal, data- attribute stripping) in
\* any of their 24 orders give the tree the pass gives.
C30_IdempotentAnyOrder ==
  op = "extractFullPage" =>
    LET once == removeUnwantedElements(PageBody)
    IN /\ removeUnwantedElements(once) = once
       /\ \A order \in Orders : InOrder(order, PageBody) = once

\* A page whose body holds a denylisted element with an element with a
\* data- attribute in it: the pass removes both, in the order of the code
\* and in the opposite one.
C30_Witness ==
  /\ op = "extractFullPage"
  /\ PageBody.children =
       <<El("div", "class" :> Chars("top ads"), <<"n">>,
            <<El("p", ("data-id" :> <<"1">>) @@ ("onclick" :> Chars("f()")),
                 <<"a">>, <<>>)>>)>>
  /\ removeUnwantedElements(PageBody).children = <<>>
  /\ InOrder(<<"data attributes", "denylist", "hidden", "scripts and styles">>,
             PageBody) = removeUnwantedElements(PageBody)

\* ---- C31 ----------------------------------------------------------------
\* The first code units of a string: what substring(0, n) gives for some n.
IsPrefixOf(prefix, body) == substring(body, stringLength(prefix)) = prefix

ReturnedTruncated ==
  /\ op = "writeToClipboard"
  /\ pc = "resolved"
  /\ ret.success
  /\ ret.method = "truncated"

\* C31: whenever writeToClipboard returns method truncated, the text written
\* to the clipboard is a prefix of the original content followed by the
\* truncation notice, its size in bytes is at most truncateAt, and finalSize
\* is less than originalSize, for content of multi-byte characters too.
C31_TruncatedFits ==
  ReturnedTruncated =>
    /\ FirstCall.api = "writeText"
    /\ FirstCall.content.notice
    /\ IsPrefixOf(FirstCall.content.body, arg.content)
    /\ calculateSize(FirstCall.content) <= config.truncateAt
    /\ ret.finalSize.present
    /\ ret.finalSize.value = calculateSize(FirstCall.content)
    /\ ret.finalSize.value < ret.originalSize

\* ---- C32 ----------------------------------------------------------------
\* The sendResponse calls made for a request.
ResponsesTo(id) ==
  SelectSeq(log, LAMBDA call : call.api = "sendResponse" /\ call.request = id)

\* C32: in the content script every incoming request gets exactly one
\* response: for get-full-page, get-selection, check-selection and any
\* unknown action sendResponse is called once on every path (success,
\* oversized content, no selection, thrown error), never zero times and
\* never twice, and only for requests that were made.
C32_OneResponse ==
  /\ \A id \in 1..browser.requests : Len(ResponsesTo(id)) = 1
  /\ \A i \in 1..Len(log) :
       log[i].api = "sendResponse" => log[i].request \in 1..browser.requests

\* The request for the selection of a page without one was answered once,
\* with the error.
C32_Witness ==
  /\ arg.action = "get-selection"
  /\ ~browser.selection.exists
  /\ Len(ResponsesTo(arg.id)) = 1
  /\ ~ResponsesTo(arg.id)[1].response.success
  /\ ret.returned

\* ---- C33 ----------------------------------------------------------------
\* No two messages in a row carry the same value, the first one, sent on a
\* change from no selection, says there is one.
Alternates ==
  /\ \A i \in 1..(Len(SelectionMessages) - 1) :
       SelectionMessages[i].hasSelection # SelectionMessages[i + 1].hasSelection
  /\ SelectionMessages # <<>> => SelectionMessages[1].hasSelection

\* A message sent in a step carries the selection state of that moment, and
\* that state is not the one of the message before it.
SentAsIs ==
  Len(SelectionMessages') > Len(SelectionMessages) =>
    /\ Len(SelectionMessages') = Len(SelectionMessages) + 1
    /\ SelectionMessages'[Len(SelectionMessages')].hasSelection
         = hasSelection(browser.selection)
    /\ browser'.selection = browser.selection
    /\ browser'.lastSelectionState = hasSelection(browser.selection)
    /\ browser.lastSelectionState # hasSelection(browser.selection)

\* C33: the content script sends a selection-changed message only when the
\* selection state changes: over any sequence of selectionchange, mouseup
\* and keyup events two consecutive messages never carry the same
\* hasSelection value, and the value sent is the selection state at the
\* time of the event.
C33_OnlyChanges == []Alternates /\ [][SentAsIs]_vars

\* A keyup event reported that the selection is gone, after the message
\* that said there was one.
C33_Witness ==
  /\ Len(SelectionMessages) = 2
  /\ SelectionMessages[1].hasSelection
  /\ SelectionMessages[2].event = "keyup"
  /\ ~SelectionMessages[2].hasSelection
  /\ ~hasSelection(browser.selection)

\* ---- C34 ----------------------------------------------------------------
PageItems == {CONTEXT_MENU_IDS.COPY_PAGE, CONTEXT_MENU_IDS.DOWNLOAD_PAGE}
SelectionItems ==
  {CONTEXT_MENU_IDS.COPY_SELECTION, CONTEXT_MENU_IDS.DOWNLOAD_SELECTION}

\* Every update has completed, after a message at least.
UpdatesDone ==
  /\ op = "selection-changed"
  /\ browser.updates = <<>>

\* C34: the selection context-menu items are shown only when text is
\* selected: for every interleaving of selection-changed messages handled
\* by the background, once all pending updates have completed the two
\* selection items exist if and only if the most recently received message
\* had hasSelection = true, the two page items exist, and no menu id was
\* created twice without a removal in between.
C34_MenusFollowSelection ==
  /\ UpdatesDone =>
       /\ PageItems \subseteq browser.menus
       /\ IF arg.hasSelection THEN SelectionItems \subseteq browser.menus
          ELSE SelectionItems \cap browser.menus = {}
  /\ \A i \in 1..Len(log) : log[i].outcome # "duplicate id"

\* ---- C35 ----------------------------------------------------------------
\* The copy was asked of the background worker, which reports by
\* notification (handleCopyAction), not of the popup.
ByBackground == op = "get-full-page" /\ arg.trigger \in {"toolbar", "context-menu"}

Reported(kind) == \E i \in 1..Len(log) : log[i] = Report(kind)
WrittenToClipboard == \E i \in 1..Len(log) : log[i].api = "writeText"

\* C35: in handleCopyAction of the background worker the success
\* notification, Content copied as Markdown, is shown only if the Markdown
\* was written to the clipboard; when the clipboard write fails the user is
\* not told that the content was copied.
C35_CopiedMeansWritten ==
  (ByBackground /\ Reported("Success")) => WrittenToClipboard

\* ---- C36 ----------------------------------------------------------------
Shown(kind) == \E i \in 1..Len(log) : log[i].api = kind

\* C36: the popup reports success for a download, Download started!, only
\* if the response of the background worker to the download request had
\* success = true; a failed download reported by the background worker
\* leads to the error state.
C36_StartedMeansSuccess ==
  /\ Shown("success") => (ret.background.answered /\ ret.background.success)
  /\ (pc = "done" /\ ret.background.answered /\ ~ret.background.success)
       => Shown("error")

\* ---- C37 ----------------------------------------------------------------
\* What convert returns for an html that is one block with this replacement:
\* turndown joins it to the empty output and trims it, and the cleanup pass
\* runs over the whole result (converter.ts:140-143).
ConvertedAlone(replacement) ==
  cleanupMarkdown(postProcess(turndownJoin(<<>>, replacement)))

\* C37: the text of a fenced code block is unchanged by conversion: for a
\* pre whose first child is a code element with text t, the lines between
\* the opening and the closing fence in the output of convert are exactly
\* t; the cleanup pass changes nothing inside a fence (lines of t that
\* start with #, blank-line runs and trailing spaces are kept).
C37_FenceTextKept ==
  (Returned("fencedCodeBlock") /\ ret.applies /\ ~ret.raised) =>
    LET codeNode == arg.childNodes[1]
    IN ConvertedAlone(ret.markdown)
         = Fence \o language(OrEmpty(codeNode.class)) \o <<NL>>
             \o codeNode.textContent \o <<NL>> \o Fence

\* ---- C38 ----------------------------------------------------------------
\* The ids of the Chrome notifications whose auto-dismiss timer is pending.
PendingTimers == {t.id : t \in {u \in browser.timers : u.of = "chrome"}}

\* The map holds the ids with a pending timer and no others.
EntryWhilePending == browser.timeouts = PendingTimers

\* An entry is added with the timer of a created notification, and it goes
\* when the timer fires, when the callback of clear(id) runs or in clearAll.
AddedAndRemoved ==
  /\ \A id \in browser.timeouts' \ browser.timeouts :
       /\ log' = Append(log, ApiCall("notifications.create", "created"))
       /\ id = browser.ids
  /\ \A id \in browser.timeouts \ browser.timeouts' :
       /\ Len(log') = Len(log) + 1
       /\ log'[Len(log')] \in {ApiCall("timeout", "chrome"),
                               ApiCall("notifications.clear", "cleared"),
                               ApiCall("clearAll", "called")}

\* After clearAll the map is empty and no timer of a Chrome notification is
\* left to fire; a timer that fires has its entry and clears its own
\* notification only.
ClearAllCancels ==
  /\ (Len(log') = Len(log) + 1 /\ log'[Len(log')] = ApiCall("clearAll", "called"))
       => (browser.timeouts' = {} /\ PendingTimers' = {})
  /\ (Len(log') = Len(log) + 1 /\ log'[Len(log')] = ApiCall("timeout", "chrome"))
       => \E id \in browser.timeouts :
            /\ browser.timeouts' = browser.timeouts \ {id}
            /\ browser.notifications' = {n \in browser.notifications : n.id # id}

\* C38: notificationTimeouts holds an entry for a notification id exactly
\* while an auto-dismiss timer for that Chrome notification is pending: the
\* entry is added when the timer is set, removed when the timer fires or
\* when clear(id) cancels it, and after clearAll the map is empty and no
\* cancelled timer clears a notification later.
C38_TimeoutsMap == []EntryWhilePending /\ [][AddedAndRemoved /\ ClearAllCancels]_vars

\* clearAll has cancelled the timer of the notification on screen and
\* emptied the map, before its getAll callback and after the callback of a
\* clear call has run.
C38_Witness ==
  /\ browser.ids = 2
  /\ browser.timeouts = {}
  /\ browser.timers = {}
  /\ browser.notifications = {[id |-> 2, requireInteraction |-> FALSE]}
  /\ Callback("getAll", 0) \in browser.callbacks
  /\ Made("notifications.clear", "cleared")
  /\ Made("notifications.create", "created")

====
